---- MODULE Spec2Model ----
(***************************************************************************)
(* A model of babel's low-level locale data access (babel/localedata.py):  *)
(* the process-wide cache and its lock, load() with its recursive ancestor *)
(* loads, merge(), the alias-resolving dictionary view LocaleDataDict, and *)
(* normalize_locale().                                                     *)
(*                                                                         *)
(* Python objects that have an identity (dictionaries) live in a heap; a   *)
(* value stored in a dictionary slot is a tagged record:                   *)
(*   "s"  a string            "none" None                                  *)
(*   "d"  a dict (heap ref)   "a"    an Alias(keys)                        *)
(*   "t"  a tuple (Alias(keys), others-dict ref)                           *)
(*   "w"  a LocaleDataDict(_data ref, base ref)                            *)
(*                                                                         *)
(* A model of babel's message catalogs (babel/messages/catalog.py) and     *)
(* checkers (babel/messages/checkers.py) follows: Message, Catalog with    *)
(* item assignment, add(), update() and check(), the PYTHON_FORMAT scan    *)
(* and the registered checkers.  A Python string is a sequence of          *)
(* characters; a message id or translation is a tagged record:             *)
(*   "s"  a string (field v)  "p"  a tuple of strings (field items)        *)
(* Methods whose body is absent from the source are modelled from their    *)
(* documented behaviour.                                                   *)
(***************************************************************************)
EXTENDS Integers, Sequences, FiniteSets, TLC

VARIABLES
    disk,        \* locale identifier -> what the data directory holds for it
    heap,        \* sequence of dict objects; the index is the object's identity
    cache,       \* _cache: identifier -> heap index
    lockOwner,   \* _cache_lock: owning thread, or NoThread
    lockCount,   \* _cache_lock: recursion level of the owner
    stack,       \* per thread: the frames of its (recursive) load() calls
    result,      \* per thread: outcome of its last finished top-level load()
    calls,       \* number of top-level load() calls started so far
    returned,    \* history: identifier -> objects some load() returned for it
    lastRead,    \* the last LocaleDataDict.__getitem__ call and what it did
    nm,          \* normalize_locale(): input, first and second application
    msgs,        \* the Message objects; the index is the object's identity
    cats,        \* the Catalog objects: the receiver and a template
    op,          \* the last Catalog operation: its arguments, the state
                 \* before it and its outcome
    ck           \* a checker call: its arguments and its outcome

loadVars == <<disk, heap, cache, lockOwner, lockCount, stack, result, calls,
              returned, lastRead>>
catVars == <<msgs, cats, op, ck>>
vars == <<disk, heap, cache, lockOwner, lockCount, stack, result, calls,
          returned, lastRead, nm, msgs, cats, op, ck>>

-----------------------------------------------------------------------------
(* Bounds of the model                                                     *)

MaxCalls == 2          \* top-level load() calls in a behaviour
MaxReads == 3          \* LocaleDataDict reads in a behaviour
RecursionLimit == 3    \* depth at which the interpreter raises RecursionError
MaxNameLen == 4        \* length of the enumerated locale names
MaxOps == 2            \* add() and item assignments on a catalog in a behaviour
MaxTemplate == 3       \* messages of the template that update() is given
MaxOld == 3            \* messages of the catalog that update() is called on
MaxTokens == 2         \* pieces (text, placeholders) of a checked format string
MaxForms == 3          \* translated forms of a checked pluralizable message

Threads == {"t1", "t2"}
NoThread == "none"

-----------------------------------------------------------------------------
(* Values                                                                  *)

S(v) == [t |-> "s", v |-> v]
D(r) == [t |-> "d", r |-> r]
A(keys) == [t |-> "a", keys |-> keys]
T(keys, r) == [t |-> "t", keys |-> keys, r |-> r]
W(r, base) == [t |-> "w", r |-> r, base |-> base]
PyNone == [t |-> "none"]

\* Python truthiness of a 'parent' entry (`if parent:`)
Truthy(v) == v.t = "s" /\ v.v # ""

Without(f, key) == [k \in DOMAIN f \ {key} |-> f[k]]

-----------------------------------------------------------------------------
(* The data files.  A file is the pickled tree of one locale: a sequence   *)
(* of dicts whose "d"/"t" references are relative to the file (1 = top).   *)

RootFile ==
    << ("parent" :> PyNone) @@ ("k" :> S("root_k")) @@ ("r" :> S("root_r"))
         @@ ("m" :> D(2)) @@ ("al" :> A(<<"m">>)) @@ ("al2" :> A(<<"al">>))
         @@ ("ov" :> T(<<"al">>, 4)),
       ("x" :> S("root_x")) @@ ("y" :> S("root_y")) @@ ("s" :> D(3)),
       ("p" :> S("root_p")) @@ ("q" :> S("root_q")),
       ("x" :> S("ov_x")) @@ ("z" :> S("ov_z")) @@ ("s" :> D(5)),
       ("p" :> S("ov_p")) >>

\* root.dat as the CLDR import writes it when it records no 'parent' entry
RootFileNoParent == [RootFile EXCEPT ![1] = Without(RootFile[1], "parent")]

EnFile ==
    << ("k" :> S("en_k")) @@ ("m" :> D(2)),
       ("x" :> S("en_x")) >>

EnUsFile ==
    << ("parent" :> S("en")) @@ ("k" :> S("us_k")) >>

Locales == {"root", "en", "en_US"}

\* what the locale-data directory holds for each identifier: the file, for
\* root possibly the file without a 'parent' entry, or nothing
Disks ==
    { [root |-> "file", en |-> "file", en_US |-> "file"],
      [root |-> "file-without-parent", en |-> "file", en_US |-> "file"],
      [root |-> "file", en |-> "missing", en_US |-> "file"] }

\* os.path.exists(resolve_locale_filename(name))
FileExists(name) == disk[name] # "missing"

\* the content of the file open(filename, 'rb') reads
FileOf(name) ==
    CASE name = "root" -> (IF disk[name] = "file" THEN RootFile ELSE RootFileNoParent)
      [] name = "en" -> EnFile
      [] name = "en_US" -> EnUsFile

Shift(v, b) ==
    CASE v.t = "d" -> D(v.r + b)
      [] v.t = "t" -> T(v.keys, v.r + b)
      [] OTHER -> v

\* pickle.load(fileobj): fresh objects for every dict of the file
Unpickle(h, file) ==
    h \o [i \in 1..Len(file) |-> [k \in DOMAIN file[i] |-> Shift(file[i][k], Len(h))]]

-----------------------------------------------------------------------------
(* merge(dict1, dict2)                                                     *)

SetItem(h, obj, key, val) == [h EXCEPT ![obj] = (key :> val) @@ h[obj]]

\* `dict1[key] = val2` for a key that both dictionaries hold
MergeOverwrite(h, dict1, key, val2) == SetItem(h, dict1, key, val2)

RECURSIVE mergeItems(_, _, _, _)
mergeItems(h, dict1, dict2, keys) ==
    IF keys = {} THEN h
    ELSE LET key == CHOOSE k \in keys : TRUE
             val2 == h[dict2][key]
             h1 == IF key \notin DOMAIN h[dict1]
                   THEN SetItem(h, dict1, key, val2)
                   ELSE LET val1 == h[dict1][key]
                        IN IF val1.t = "d" /\ val2.t = "d"
                           THEN mergeItems(h, val1.r, val2.r, DOMAIN h[val2.r])
                           ELSE MergeOverwrite(h, dict1, key, val2)
         IN mergeItems(h1, dict1, dict2, keys \ {key})

merge(h, dict1, dict2) == mergeItems(h, dict1, dict2, DOMAIN h[dict2])

-----------------------------------------------------------------------------
(* load(name, merge_inherited)                                             *)
(* A frame is one activation of load(): pc is the statement it is at,      *)
(* data the freshly unpickled dict, pdata the parent_data it was handed.   *)

Frame(name, mi) == [name |-> name, mi |-> mi, pc |-> "check", data |-> 0, pdata |-> 0]

Top(t) == stack[t][Len(stack[t])]
Running(t) == stack[t] # <<>>
AtPc(t, pc) == Running(t) /\ Top(t).pc = pc
SetTop(t, f) == [stack EXCEPT ![t] = [@ EXCEPT ![Len(@)] = f]]

\* the frames of a thread that are inside `with _cache_lock:`
InsideLock(f) == f.pc \in {"open", "inherit", "wait", "merge", "store"}
Held(t) == Cardinality({i \in 1..Len(stack[t]) : InsideLock(stack[t][i])})

\* RLock.acquire() succeeds for the owner and when the lock is free
CanAcquireAlways(t) == TRUE
CanAcquire(t) == lockOwner \in {NoThread, t}

\* `return obj` of the top frame: to the waiting caller frame, or to the thread
ReturnFrom(t, obj) ==
    LET f == Top(t)
        rest == SubSeq(stack[t], 1, Len(stack[t]) - 1)
    IN /\ returned' = [returned EXCEPT ![f.name] = @ \cup {obj}]
       /\ IF rest = <<>>
          THEN /\ stack' = [stack EXCEPT ![t] = <<>>]
               /\ result' = [result EXCEPT ![t] =
                      [kind |-> "ok", name |-> f.name, mi |-> f.mi, obj |-> obj,
                       cached |-> TRUE]]
          ELSE /\ stack' = [stack EXCEPT ![t] =
                      [rest EXCEPT ![Len(rest)] = [@ EXCEPT !.pdata = obj, !.pc = "merge"]]]
               /\ UNCHANGED result

\* an exception leaves every frame of the thread; each `with` releases the lock
Raise(t, kind) ==
    /\ stack' = [stack EXCEPT ![t] = <<>>]
    /\ result' = [result EXCEPT ![t] =
           [kind |-> kind, name |-> stack[t][1].name, mi |-> stack[t][1].mi, obj |-> 0,
            cached |-> cache[stack[t][1].name] # 0]]
    /\ lockCount' = lockCount - Held(t)
    /\ lockOwner' = IF lockCount = Held(t) THEN NoThread ELSE lockOwner
    /\ UNCHANGED returned

Call(t) ==
    /\ ~Running(t)
    /\ calls < MaxCalls
    /\ \E name \in Locales, mi \in BOOLEAN :
          stack' = [stack EXCEPT ![t] = <<Frame(name, mi)>>]
    /\ calls' = calls + 1
    /\ UNCHANGED <<disk, heap, cache, lockOwner, lockCount, result, returned, lastRead, nm, catVars>>

\* if name in _cache: return _cache[name]
LoadCheck(t) ==
    /\ AtPc(t, "check")
    /\ IF cache[Top(t).name] # 0
       THEN ReturnFrom(t, cache[Top(t).name])
       ELSE /\ stack' = SetTop(t, [Top(t) EXCEPT !.pc = "acquire"])
            /\ UNCHANGED <<result, returned>>
    /\ UNCHANGED <<disk, heap, cache, lockOwner, lockCount, calls, lastRead, nm, catVars>>

\* with _cache_lock:
LoadAcquire(t) ==
    /\ AtPc(t, "acquire")
    /\ CanAcquire(t)
    /\ lockOwner' = t
    /\ lockCount' = lockCount + 1
    /\ stack' = SetTop(t, [Top(t) EXCEPT !.pc = "open"])
    /\ UNCHANGED <<disk, heap, cache, result, calls, returned, lastRead, nm, catVars>>

\* open(filename, 'rb') raises FileNotFoundError
LoadOpenFail(t) ==
    /\ AtPc(t, "open")
    /\ ~FileExists(Top(t).name)
    /\ Raise(t, "IOError")
    /\ UNCHANGED <<disk, heap, cache, calls, lastRead, nm, catVars>>

\* data = pickle.load(fileobj)
LoadOpen(t) ==
    /\ AtPc(t, "open")
    /\ FileExists(Top(t).name)
    /\ heap' = Unpickle(heap, FileOf(Top(t).name))
    /\ stack' = SetTop(t, [Top(t) EXCEPT !.pc = "inherit", !.data = Len(heap) + 1])
    /\ UNCHANGED <<disk, cache, lockOwner, lockCount, result, calls, returned, lastRead, nm, catVars>>

\* the parent that `if merge_inherited:` goes on to load, "" when it loads none
ParentToLoad(h, f) ==
    IF ~f.mi THEN ""
    ELSE IF "parent" \in DOMAIN h[f.data]
         THEN IF Truthy(h[f.data]["parent"]) THEN h[f.data]["parent"].v ELSE ""
         ELSE "root"

LoadInherit(t) ==
    /\ AtPc(t, "inherit")
    /\ LET parent == ParentToLoad(heap, Top(t))
       IN IF parent = ""
          THEN /\ stack' = SetTop(t, [Top(t) EXCEPT !.pc = "store"])
               /\ UNCHANGED <<result, lockOwner, lockCount, returned>>
          ELSE IF Len(stack[t]) >= RecursionLimit
               THEN Raise(t, "RecursionError")
               ELSE /\ stack' = [stack EXCEPT ![t] =
                           Append([@ EXCEPT ![Len(@)].pc = "wait"], Frame(parent, TRUE))]
                    /\ UNCHANGED <<result, lockOwner, lockCount, returned>>
    /\ UNCHANGED <<disk, heap, cache, calls, lastRead, nm, catVars>>

\* merge(data, parent_data)
LoadMerge(t) ==
    /\ AtPc(t, "merge")
    /\ heap' = merge(heap, Top(t).data, Top(t).pdata)
    /\ stack' = SetTop(t, [Top(t) EXCEPT !.pc = "store"])
    /\ UNCHANGED <<disk, cache, lockOwner, lockCount, result, calls, returned, lastRead, nm, catVars>>

\* _cache[name] = data; return data (leaving the `with` block)
LoadStore(t) ==
    /\ AtPc(t, "store")
    /\ cache' = [cache EXCEPT ![Top(t).name] = Top(t).data]
    /\ lockCount' = lockCount - 1
    /\ lockOwner' = IF lockCount = 1 THEN NoThread ELSE lockOwner
    /\ ReturnFrom(t, Top(t).data)
    /\ UNCHANGED <<disk, heap, calls, lastRead, nm, catVars>>

-----------------------------------------------------------------------------
(* Alias.resolve(data) and LocaleDataDict.__getitem__(key)                 *)

\* data = data[key] for each key of the alias, starting at the base mapping;
\* a slot that holds a LocaleDataDict is entered through its _data
RECURSIVE Walk(_, _, _)
Walk(h, cur, keys) ==
    IF keys = <<>> THEN cur
    ELSE Walk(h, h[cur.r][Head(keys)], Tail(keys))

\* Alias.resolve: the mapping the keys lead to in the base mapping; an alias
\* found there is resolved in turn.  The result is the mapping itself, also
\* when the slot already holds a view of it.
RECURSIVE resolve(_, _, _)
resolve(h, base, keys) ==
    LET found == Walk(h, D(base), keys)
    IN CASE found.t = "a" -> resolve(h, base, found.keys)
         [] found.t = "w" -> D(found.r)
         [] OTHER -> found

\* if val is not orig: self._data[key] = val
MemoizeNever(h, obj, key, orig, val) == h
Memoize(h, obj, key, orig, val) ==
    IF val # orig THEN SetItem(h, obj, key, val) ELSE h

\* val = alias.resolve(self.base).copy(); merge(val, others)
\* (the heap with the merged copy appended as its last object)
CopyAndMerge(h, base, tup) ==
    LET copied == Append(h, h[resolve(h, base, tup.keys).r])
    IN merge(copied, Len(copied), tup.r)

\* if isinstance(val, dict): val = LocaleDataDict(val, base=self.base)
Wrap(val, base) == IF val.t = "d" THEN W(val.r, base) ELSE val

\* the views a thread can read through: the view it makes of the mapping its
\* last load() returned, and a nested view its last read returned
ViewsOf(t) ==
    (IF result[t].kind = "ok" THEN {W(result[t].obj, result[t].obj)} ELSE {})
    \cup (IF lastRead.n > 0 /\ lastRead.val.t = "w" THEN {lastRead.val} ELSE {})

GetItem(t) ==
    /\ ~Running(t)
    /\ lastRead.n < MaxReads
    /\ \E view \in ViewsOf(t) : \E key \in DOMAIN heap[view.r] :
          LET orig == heap[view.r][key]
              val1 == IF orig.t = "a" THEN resolve(heap, view.base, orig.keys) ELSE orig
              h2 == IF val1.t = "t" THEN CopyAndMerge(heap, view.base, val1) ELSE heap
              val2 == IF val1.t = "t" THEN D(Len(h2)) ELSE val1
              val == Wrap(val2, view.base)
          IN /\ heap' = Memoize(h2, view.r, key, orig, val)
             /\ lastRead' = [n |-> lastRead.n + 1, obj |-> view.r, base |-> view.base,
                             key |-> key, orig |-> orig, val |-> val,
                             resolves |-> (IF orig.t = "a" THEN 1 ELSE 0)
                                          + (IF val1.t = "t" THEN 1 ELSE 0),
                             again |-> (lastRead.n > 0 /\ lastRead.obj = view.r
                                        /\ lastRead.key = key)]
    /\ UNCHANGED <<disk, cache, lockOwner, lockCount, stack, result, calls, returned, nm, catVars>>

-----------------------------------------------------------------------------
(* normalize_locale(name).  A Python str is a sequence of one-character    *)
(* strings; the case mappings are those of str.lower/upper/title, which    *)
(* map one character to a string (the upper case of U+00DF is "SS").       *)

\* LATIN SMALL LETTER SHARP S, a lower-case letter without a one-character upper case
Eszett == "U+00DF"

LowerLetters == <<"a", "b", "c", "e", "h", "n", "s", "u", "z">>
UpperLetters == <<"A", "B", "C", "E", "H", "N", "S", "U", "Z">>
Whitespace == {" "}

Occurs(c, letters) == \E i \in 1..Len(letters) : letters[i] = c
IndexOf(c, letters) == CHOOSE i \in 1..Len(letters) : letters[i] = c

LowerCh(c) ==
    IF Occurs(c, UpperLetters) THEN <<LowerLetters[IndexOf(c, UpperLetters)]>> ELSE <<c>>
UpperCh(c) ==
    IF Occurs(c, LowerLetters) THEN <<UpperLetters[IndexOf(c, LowerLetters)]>>
    ELSE IF c = Eszett THEN <<"S", "S">> ELSE <<c>>
TitleCh(c) == IF c = Eszett THEN <<"S", "s">> ELSE UpperCh(c)
Cased(c) == Occurs(c, LowerLetters) \/ Occurs(c, UpperLetters) \/ c = Eszett

RECURSIVE StrLower(_)
StrLower(str) == IF str = <<>> THEN <<>> ELSE LowerCh(Head(str)) \o StrLower(Tail(str))

RECURSIVE StrUpper(_)
StrUpper(str) == IF str = <<>> THEN <<>> ELSE UpperCh(Head(str)) \o StrUpper(Tail(str))

\* str.title(): a cased character that follows a cased one is lower-cased,
\* any other character is title-cased
RECURSIVE TitleFrom(_, _)
TitleFrom(str, prevCased) ==
    IF str = <<>> THEN <<>>
    ELSE (IF prevCased THEN LowerCh(Head(str)) ELSE TitleCh(Head(str)))
         \o TitleFrom(Tail(str), Cased(Head(str)))
StrTitle(str) == TitleFrom(str, FALSE)

RECURSIVE LStrip(_)
LStrip(str) ==
    IF str # <<>> /\ Head(str) \in Whitespace THEN LStrip(Tail(str)) ELSE str
RECURSIVE RStrip(_)
RStrip(str) ==
    IF str # <<>> /\ str[Len(str)] \in Whitespace
    THEN RStrip(SubSeq(str, 1, Len(str) - 1)) ELSE str
StrStrip(str) == RStrip(LStrip(str))

\* str.replace('-', '_')
StrReplace(str) == [i \in 1..Len(str) |-> IF str[i] = "-" THEN "_" ELSE str[i]]

\* str.split('_'): the pieces between the separators, empty pieces included
RECURSIVE SplitFrom(_, _)
SplitFrom(str, piece) ==
    IF str = <<>> THEN <<piece>>
    ELSE IF Head(str) = "_" THEN <<piece>> \o SplitFrom(Tail(str), <<>>)
         ELSE SplitFrom(Tail(str), Append(piece, Head(str)))
StrSplit(str) == SplitFrom(str, <<>>)

\* '_'.join(parts)
RECURSIVE StrJoin(_)
StrJoin(parts) ==
    IF Len(parts) = 1 THEN parts[1]
    ELSE parts[1] \o <<"_">> \o StrJoin(Tail(parts))

NoneStr == <<"None">>

\* script = parts[1].title() if len(parts[1]) == 4 else parts[1].upper()
ScriptCase(part) == IF Len(part) = 4 THEN StrTitle(part) ELSE StrUpper(part)

normalize_locale(name) ==
    LET cleaned == StrReplace(StrStrip(name))
    IN IF cleaned = <<>> THEN NoneStr
       ELSE LET parts == StrSplit(cleaned)
                lang == StrLower(parts[1])
                cased == IF Len(parts) > 1
                         THEN [parts EXCEPT ![2] = ScriptCase(parts[2])]
                         ELSE parts
            IN StrJoin([cased EXCEPT ![1] = lang])

\* the names normalize_locale is applied to
Alphabet == {"a", "B", Eszett, "-", "_", " "}

RECURSIVE StringsUpTo(_)
StringsUpTo(n) ==
    IF n = 0 THEN {<<>>}
    ELSE LET shorter == StringsUpTo(n - 1)
         IN shorter \cup {Append(str, c) : str \in shorter, c \in Alphabet}

ExampleNames ==
    { <<"e", "n", "-", "u", "s">>,
      <<"z", "h", "-", "h", "a", "n", "s", "-", "c", "n">>,
      <<"z", "h", "_", "H", "A", "N", "S">>,
      <<" ", "E", "N", "_", "u", "s", " ">> }

Names == StringsUpTo(MaxNameLen) \cup ExampleNames

NormalizeOnce ==
    /\ nm.pc = "in"
    /\ nm' = [nm EXCEPT !.pc = "once", !.out = normalize_locale(nm.name)]
    /\ UNCHANGED <<loadVars, catVars>>

\* the caller passes a name it got from normalize_locale back in
NormalizeAgain ==
    /\ nm.pc = "once"
    /\ nm.out # NoneStr
    /\ nm' = [nm EXCEPT !.pc = "twice", !.out2 = normalize_locale(nm.out)]
    /\ UNCHANGED <<loadVars, catVars>>

-----------------------------------------------------------------------------
(* Messages (babel/messages/catalog.py).  A str is a sequence of           *)
(* one-character strings as above; S(str) is a str value, Tup(items) a     *)
(* tuple or list of str, PyNone is None.                                   *)

Tup(items) == [t |-> "p", items |-> items]

\* `not value` for None, a str and a tuple
Falsy(val) ==
    \/ val.t = "none"
    \/ val.t = "s" /\ val.v = <<>>
    \/ val.t = "p" /\ val.items = <<>>

\* isinstance(value, (list, tuple))
IsSequence(val) == val.t = "p"

\* PYTHON_FORMAT: "%", an optional "(name)", optional flag, width, precision
\* and length modifier, and the conversion type
FlagChars == {"-", "#", "0", " ", "+"}
DigitChars == {"0", "1", "2", "3", "4", "5", "6", "7", "8", "9"}
LengthChars == {"h", "l", "L"}
TypeChars == {"d", "i", "o", "u", "x", "X", "e", "E", "f", "F", "g", "G",
              "c", "r", "s", "%"}
AsciiLower ==
    { "a", "b", "c", "d", "e", "f", "g", "h", "i", "j", "k", "l", "m",
      "n", "o", "p", "q", "r", "s", "t", "u", "v", "w", "x", "y", "z" }
AsciiUpper ==
    { "A", "B", "C", "D", "E", "F", "G", "H", "I", "J", "K", "L", "M",
      "N", "O", "P", "Q", "R", "S", "T", "U", "V", "W", "X", "Y", "Z" }
WordChar(c) == c \in AsciiLower \cup AsciiUpper \cup DigitChars \cup {"_"}

At(str, i, set) == i <= Len(str) /\ str[i] \in set
SkipOne(str, i, set) == IF At(str, i, set) THEN i + 1 ELSE i

RECURSIVE SkipDigits(_, _)
SkipDigits(str, i) == IF At(str, i, DigitChars) THEN SkipDigits(str, i + 1) ELSE i

RECURSIVE SkipWord(_, _)
SkipWord(str, i) ==
    IF i <= Len(str) /\ WordChar(str[i]) THEN SkipWord(str, i + 1) ELSE i

\* the match of PYTHON_FORMAT that starts at position i, if there is one:
\* groups 1 and 3 (name, conversion type) and the position after the match
NoMatch == [found |-> FALSE]

\* (?:\*|[\d]+)? from position i
SkipWidth(str, i) == IF At(str, i, {"*"}) THEN i + 1 ELSE SkipDigits(str, i)

\* (?:\.(?:\*|[\d]+))? from position i
SkipPrecision(str, i) ==
    IF ~At(str, i, {"."}) THEN i
    ELSE IF At(str, i + 1, {"*"}) THEN i + 2
    ELSE IF At(str, i + 1, DigitChars) THEN SkipDigits(str, i + 1)
    ELSE i

\* group 2 from position i: flag, width, precision, length modifier
SkipFormat(str, i) ==
    SkipOne(str, SkipPrecision(str, SkipWidth(str, SkipOne(str, i, FlagChars))),
            LengthChars)

\* group 3 at position i, after the name group matched name
MatchType(str, name, i) ==
    IF At(str, i, TypeChars)
    THEN [found |-> TRUE, name |-> name, type |-> str[i], end |-> i + 1]
    ELSE NoMatch

\* the optional name group: "(", word characters up to close, ")"
MatchName(str, i, close) ==
    IF At(str, i + 1, {"("}) /\ At(str, close, {")"})
    THEN MatchType(str, S(SubSeq(str, i + 2, close - 1)), SkipFormat(str, close + 1))
    ELSE MatchType(str, PyNone, SkipFormat(str, i + 1))

MatchAt(str, i) ==
    IF ~At(str, i, {"%"}) THEN NoMatch ELSE MatchName(str, i, SkipWord(str, i + 2))

\* PYTHON_FORMAT.finditer(string): the (name, format_type) of every match
RECURSIVE FindIter(_, _)
FindNext(str, i, m) ==
    IF m.found
    THEN <<[name |-> m.name, type |-> m.type]>> \o FindIter(str, m.end)
    ELSE FindIter(str, i + 1)
FindIter(str, i) ==
    IF i > Len(str) THEN <<>> ELSE FindNext(str, i, MatchAt(str, i))

\* PYTHON_FORMAT.search(string) is not None
Search(str) == FindIter(str, 1) # <<>>

\* babel.util.distinct
RECURSIVE distinctFrom(_, _)
distinctFrom(items, seen) ==
    IF items = <<>> THEN <<>>
    ELSE IF Head(items) \in seen THEN distinctFrom(Tail(items), seen)
    ELSE <<Head(items)>> \o distinctFrom(Tail(items), seen \cup {Head(items)})

distinctNever(items) == items
distinct(items) == distinctFrom(items, {})

\* Message.pluralizable, Message.fuzzy, Message.python_format
pluralizable(id) == IsSequence(id)
fuzzy(message) == "fuzzy" \in message.flags
Message_python_format(id) ==
    IF IsSequence(id) THEN \E i \in 1..Len(id.items) : Search(id.items[i])
    ELSE Search(id.v)

\* Message.__init__
Message(id, string, locations, flags, auto_comments, user_comments, context) ==
    [id |-> id,
     string |-> IF Falsy(string) /\ pluralizable(id)
                THEN Tup(<< <<>>, <<>> >>) ELSE string,
     locations |-> distinct(locations),
     flags |-> IF ~Falsy(id) /\ Message_python_format(id)
               THEN flags \cup {"python-format"}
               ELSE flags \ {"python-format"},
     auto_comments |-> distinct(auto_comments),
     user_comments |-> distinct(user_comments),
     context |-> context]

-----------------------------------------------------------------------------
(* Catalogs.  _messages and obsolete are OrderedDicts: sequences of        *)
(* (key, message object) entries without a repeated key.                   *)

DefaultHeader == <<"DEFAULT_HEADER">>
NoHeaders == [t |-> "unset"]

\* Catalog.__init__ (_num_plurals: 0 for None; attrs: the scalar metadata that
\* was assigned after construction)
CatalogFor(locale) ==
    [_messages |-> <<>>, obsolete |-> <<>>, _header_comment |-> DefaultHeader,
     mime |-> NoHeaders, fuzzy |-> TRUE, locale |-> locale, _num_plurals |-> 0,
     _plural_expr |-> PyNone, attrs |-> <<>>]

Catalog == CatalogFor(PyNone)

\* Catalog._key_for
_key_for(id, context) ==
    LET key == IF IsSequence(id) THEN id.items[1] ELSE id.v
    IN IF context # PyNone THEN Tup(<<key, context.v>>) ELSE S(key)

\* OrderedDict.get(key): the object stored under key, 0 for None
DictGet(entries, key) ==
    IF \E i \in 1..Len(entries) : entries[i].key = key
    THEN entries[CHOOSE i \in 1..Len(entries) : entries[i].key = key].ref
    ELSE 0

\* OrderedDict[key] = ref: a new key goes to the end, a known key keeps its place
DictSet(entries, key, ref) ==
    IF DictGet(entries, key) # 0
    THEN [i \in 1..Len(entries) |->
             IF entries[i].key = key THEN [key |-> key, ref |-> ref] ELSE entries[i]]
    ELSE Append(entries, [key |-> key, ref |-> ref])

DictKeys(entries) == [i \in 1..Len(entries) |-> entries[i].key]

\* Catalog.__len__
CatalogLen(catalog) == Len(catalog._messages)

\* Catalog.__contains__
CatalogContains(catalog, id) == DictGet(catalog._messages, _key_for(id, PyNone)) # 0

\* the header comment `'\n'.join([f'# {c}'.rstrip() for c in user_comments])`:
\* one line per comment
HeaderComment(user_comments) ==
    [i \in 1..Len(user_comments) |-> <<"# ", user_comments[i]>>]

\* `current` takes up `message`
UpdateCurrent(current, message) ==
    LET plural == IF pluralizable(message.id) /\ ~pluralizable(current.id)
                  THEN [current EXCEPT !.id = message.id, !.string = message.string]
                  ELSE current
    IN [plural EXCEPT
           !.locations = distinct(current.locations \o message.locations),
           !.auto_comments = distinct(current.auto_comments \o message.auto_comments),
           !.user_comments = distinct(current.user_comments \o message.user_comments),
           !.flags = current.flags \cup message.flags]

\* Catalog.__setitem__(id, message), message being the object ms[ref]: the
\* Message objects and the catalog after the call, and how the call ended
CatalogSetItem(ms, catalog, id, ref) ==
    LET message == ms[ref]
        key == _key_for(id, message.context)
        current == DictGet(catalog._messages, key)
    IN IF current # 0
       THEN [ms |-> [ms EXCEPT ![current] = UpdateCurrent(ms[current], message)],
             catalog |-> catalog, kind |-> "ok", stored |-> current]
       ELSE IF id = S(<<>>)
       THEN [ms |-> ms,
             catalog |-> [catalog EXCEPT
                             !.mime = message.string,
                             !._header_comment = HeaderComment(message.user_comments),
                             !.fuzzy = fuzzy(message)],
             kind |-> "ok", stored |-> 0]
       ELSE IF IsSequence(id) /\ ~IsSequence(message.string)
       THEN [ms |-> ms, catalog |-> catalog, kind |-> "AssertionError", stored |-> 0]
       ELSE [ms |-> ms,
             catalog |-> [catalog EXCEPT !._messages = DictSet(@, key, ref)],
             kind |-> "ok", stored |-> ref]

-----------------------------------------------------------------------------
(* Catalog.update(template, no_fuzzy_matching)                             *)

\* difflib.SequenceMatcher(autojunk=False): the common blocks (start in a,
\* start in b, length) of two strings, the longest one (the earliest in a,
\* then in b, among the longest), and the number of matching characters
Blocks(a, b) ==
    { blk \in (1..Len(a)) \X (1..Len(b)) \X (1..Len(a)) :
        /\ blk[1] + blk[3] - 1 <= Len(a)
        /\ blk[2] + blk[3] - 1 <= Len(b)
        /\ SubSeq(a, blk[1], blk[1] + blk[3] - 1) = SubSeq(b, blk[2], blk[2] + blk[3] - 1) }

LongestBlock(a, b) ==
    CHOOSE blk \in Blocks(a, b) :
        \A o \in Blocks(a, b) :
            \/ blk[3] > o[3]
            \/ blk[3] = o[3] /\ blk[1] < o[1]
            \/ blk[3] = o[3] /\ blk[1] = o[1] /\ blk[2] <= o[2]

RECURSIVE Matches(_, _)
MatchesAround(a, b, blk) ==
    blk[3]
    + Matches(SubSeq(a, 1, blk[1] - 1), SubSeq(b, 1, blk[2] - 1))
    + Matches(SubSeq(a, blk[1] + blk[3], Len(a)), SubSeq(b, blk[2] + blk[3], Len(b)))
Matches(a, b) ==
    IF Blocks(a, b) = {} THEN 0 ELSE MatchesAround(a, b, LongestBlock(a, b))

\* the default cutoff of get_close_matches, 0.6, in tenths
CutoffTenths == 6

\* SequenceMatcher.ratio() >= cutoff, the ratio being 2 * matches / total length
Close(a, b) == 2 * Matches(a, b) * 10 >= CutoffTenths * (Len(a) + Len(b))

\* get_close_matches(word, possibilities, 1): the possibility with the best
\* ratio among those that reach the cutoff, as a sequence of at most one
BestOf(word, good) ==
    IF good = {} THEN <<>>
    ELSE << CHOOSE p \in good :
              \A q \in good :
                  Matches(word, p) * (Len(word) + Len(q))
                      >= Matches(word, q) * (Len(word) + Len(p)) >>
get_close_matches(word, possibilities) ==
    BestOf(word, {p \in possibilities : Close(word, p)})

\* the id a key was made from
KeyId(key) == IF key.t = "p" THEN key.items[1] ELSE key.v

\* Catalog._to_fuzzy_match_key
_to_fuzzy_match_key(key) == StrStrip(StrLower(KeyId(key)))

\* the old key whose fuzzy match key is match
KeyOfMatch(old, match) ==
    old[CHOOSE i \in 1..Len(old) : _to_fuzzy_match_key(old[i].key) = match].key

\* the message update stores for a template message that matched an old one:
\* the template's message with the old translation and user comments
MergedKeepsTemplate(tmessage, oldmsg, isFuzzy) == tmessage
Merged(tmessage, oldmsg, isFuzzy) ==
    [tmessage EXCEPT
        !.string = oldmsg.string,
        !.user_comments = oldmsg.user_comments,
        !.flags = IF isFuzzy THEN @ \cup {"fuzzy"} ELSE @]

\* the old key a template key is matched with: itself, a close old key, or none
NoKey == [t |-> "none"]
KeyOfFirst(old, matches) ==
    IF matches = <<>> THEN NoKey ELSE KeyOfMatch(old, matches[1])
MatchExactOnly(old, key, no_fuzzy_matching) ==
    IF DictGet(old, key) # 0 THEN key ELSE NoKey
Match(old, key, no_fuzzy_matching) ==
    IF DictGet(old, key) # 0 THEN key
    ELSE IF no_fuzzy_matching THEN NoKey
    ELSE KeyOfFirst(old, get_close_matches(
                             _to_fuzzy_match_key(key),
                             {_to_fuzzy_match_key(old[i].key) : i \in 1..Len(old)}))

\* the template's messages in the template's order, each merged with the old
\* message its key is matched with
RECURSIVE updateFrom(_, _, _, _, _, _)
updateWith(ms, old, entries, no_fuzzy_matching, live, matched, oldkey) ==
    IF oldkey = NoKey
    THEN updateFrom(ms, old, Tail(entries), no_fuzzy_matching,
                    Append(live, Head(entries)), matched)
    ELSE updateFrom(Append(ms, Merged(ms[Head(entries).ref], ms[DictGet(old, oldkey)],
                                      oldkey # Head(entries).key)),
                    old, Tail(entries), no_fuzzy_matching,
                    Append(live, [key |-> Head(entries).key, ref |-> Len(ms) + 1]),
                    matched \cup {oldkey})
updateFrom(ms, old, entries, no_fuzzy_matching, live, matched) ==
    IF entries = <<>> THEN [ms |-> ms, live |-> live, matched |-> matched]
    ELSE updateWith(ms, old, entries, no_fuzzy_matching, live, matched,
                    Match(old, Head(entries).key, no_fuzzy_matching))

\* the old messages no template key was matched with go to obsolete
MoveObsoleteAll(obsolete, old, matched) == obsolete \o old
RECURSIVE MoveObsolete(_, _, _)
MoveObsolete(obsolete, old, matched) ==
    IF old = <<>> THEN obsolete
    ELSE MoveObsolete(IF Head(old).key \in matched THEN obsolete
                      ELSE DictSet(obsolete, Head(old).key, Head(old).ref),
                      Tail(old), matched)

\* the live messages after the update
LiveKeepsOld(old, live) ==
    live \o SelectSeq(old, LAMBDA e : DictGet(live, e.key) = 0)
Live(old, live) == live

\* Catalog.update: the Message objects and the receiver after the call
updated(catalog, r) ==
    [ms |-> r.ms,
     catalog |-> [catalog EXCEPT
                     !._messages = Live(catalog._messages, r.live),
                     !.obsolete = MoveObsolete(@, catalog._messages, r.matched)]]
update(ms, catalog, template, no_fuzzy_matching) ==
    updated(catalog, updateFrom(ms, catalog._messages, template._messages,
                                no_fuzzy_matching, <<>>, {}))

-----------------------------------------------------------------------------
(* A program that fills one catalog through add() and item assignment     *)

Foo == <<"f", "o", "o">>
Foos == <<"f", "o", "o", "s">>
Bar == <<"b", "a", "r">>
Ctx == <<"c">>
HeaderText == <<"h", "d", "r">>
MainPy1 == <<"main.py", 1>>
UtilsPy5 == <<"utils.py", 5>>

Args(id, string, locations, flags, auto_comments, user_comments, context) ==
    [id |-> id, string |-> string, locations |-> locations, flags |-> flags,
     auto_comments |-> auto_comments, user_comments |-> user_comments,
     context |-> context]

\* the arguments the program constructs its messages from
MessageArgs ==
    { Args(S(Foo), PyNone, <<MainPy1>>, {}, <<>>, <<>>, PyNone),
      Args(S(Foo), S(Bar), <<UtilsPy5, MainPy1, UtilsPy5>>, {"fuzzy"}, <<"auto">>,
           <<"hello">>, PyNone),
      Args(Tup(<<Foo, Foos>>), S(Bar), <<UtilsPy5>>, {}, <<>>, <<>>, PyNone),
      Args(Tup(<<Foo, Foos>>), PyNone, <<>>, {}, <<>>, <<>>, PyNone),
      Args(Tup(<< <<>>, Foos >>), Tup(<<Bar, Bar>>), <<MainPy1>>, {}, <<>>, <<>>, PyNone),
      Args(S(<<>>), S(HeaderText), <<UtilsPy5>>, {"fuzzy"}, <<>>, <<"hello">>, PyNone),
      Args(S(<<>>), S(HeaderText), <<>>, {}, <<>>, <<>>, S(Ctx)),
      Args(S(Foo), S(Bar), <<MainPy1>>, {}, <<>>, <<>>, S(Ctx)),
      Args(S(<<"%", "s">>), S(<<"%", "x">>), <<>>, {}, <<>>, <<>>, PyNone) }

\* the ids the program assigns under
ItemIds == {S(Foo), Tup(<<Foo, Foos>>), S(<<>>)}

NewMessage(a) ==
    Message(a.id, a.string, a.locations, a.flags, a.auto_comments,
            a.user_comments, a.context)

\* `cats[which][id] = Message(...)`; op keeps the state the call started in
\* and counts the messages made for each catalog
AssignTo(which, kind, id, a) ==
    LET ms == Append(msgs, NewMessage(a))
        r == CatalogSetItem(ms, cats[which], id, Len(ms))
    IN /\ msgs' = r.ms
       /\ cats' = [cats EXCEPT ![which] = r.catalog]
       /\ op' = [kind |-> kind, which |-> which, id |-> id, ref |-> Len(ms),
                 out |-> r.kind, msgs |-> ms, catalog |-> cats[which],
                 made |-> [op.made EXCEPT ![which] = @ + 1]]
       /\ UNCHANGED <<loadVars, nm, ck>>

Assign(kind, id, a) ==
    /\ op.made.catalog < MaxOps
    /\ AssignTo("catalog", kind, id, a)

\* Catalog.add(id, string, ...): construct the Message, then `self[id] = message`
add == \E a \in MessageArgs : Assign("add", a.id, a)

\* Catalog.__setitem__ called by the program
SetItemCall == \E id \in ItemIds, a \in MessageArgs : Assign("setitem", id, a)

-----------------------------------------------------------------------------
(* A program that extracts a template, fills a catalog of translations and *)
(* then updates the catalog from the template                              *)

Green == <<"g", "r", "e", "e", "n">>
Blue == <<"b", "l", "u", "e">>
Blau == <<"b", "l", "a", "u">>
Salad == <<"s", "a", "l", "a", "d">>
Salads == <<"s", "a", "l", "a", "d", "s">>
Salat == <<"S", "a", "l", "a", "t">>
Salate == <<"S", "a", "l", "a", "t", "e">>
HeadId == <<"h", "e", "a", "d">>
Heads == <<"h", "e", "a", "d", "s">>
Kopf == <<"K", "o", "p", "f">>

\* what the extraction adds to the template: ids with their locations and
\* automatic comments, no translation
TemplateArgs ==
    { Args(S(Green), PyNone, << <<"main.py", 99>> >>, {}, <<>>, <<>>, PyNone),
      Args(S(Blue), PyNone, << <<"main.py", 100>> >>, {}, <<"auto">>, <<>>, PyNone),
      Args(Tup(<<Salad, Salads>>), PyNone, << <<"util.py", 42>> >>, {}, <<>>, <<>>, PyNone),
      Args(S(Heads), PyNone, << <<"util.py", 34>> >>, {}, <<>>, <<>>, PyNone) }

\* what the translators' catalog is filled with
OldArgs ==
    { Args(S(Blue), S(Blau), << <<"main.py", 98>> >>, {}, <<>>, <<"note">>, PyNone),
      Args(S(HeadId), S(Kopf), << <<"util.py", 33>> >>, {}, <<>>, <<>>, PyNone),
      Args(Tup(<<Salad, Salads>>), Tup(<<Salat, Salate>>), << <<"util.py", 38>> >>,
           {}, <<>>, <<>>, PyNone),
      Args(S(Green), PyNone, <<>>, {"fuzzy"}, <<>>, <<>>, PyNone) }

Updated == op.kind = "update"

\* template.add(...) for an id the template does not hold yet
addToTemplate ==
    /\ ~Updated
    /\ op.made.catalog = 0
    /\ op.made.template < MaxTemplate
    /\ \E a \in TemplateArgs :
           /\ ~CatalogContains(cats.template, a.id)
           /\ AssignTo("template", "add", a.id, a)

\* catalog.add(...) for an id the catalog does not hold yet
addToCatalog ==
    /\ ~Updated
    /\ op.made.catalog < MaxOld
    /\ \E a \in OldArgs :
           /\ ~CatalogContains(cats.catalog, a.id)
           /\ AssignTo("catalog", "add", a.id, a)

\* catalog.update(template, no_fuzzy_matching)
updateCall ==
    /\ ~Updated
    /\ \E no_fuzzy_matching \in BOOLEAN :
           LET r == update(msgs, cats.catalog, cats.template, no_fuzzy_matching)
           IN /\ msgs' = r.ms
              /\ cats' = [cats EXCEPT !.catalog = r.catalog]
              /\ op' = [kind |-> "update", no_fuzzy_matching |-> no_fuzzy_matching,
                        msgs |-> msgs, catalog |-> cats.catalog, made |-> op.made]
    /\ UNCHANGED <<loadVars, nm, ck>>

-----------------------------------------------------------------------------
(* The checkers (babel/messages/checkers.py) and Catalog.check()           *)

\* what the call of a checker ends in
ReturnsNone == "None"
ReturnsValue == "value"

\* Catalog.num_plurals: the parsed Plural-Forms value, or the plural rule of
\* the catalog's locale (two forms for a catalog without a locale)
En == <<"e", "n">>
Ga == <<"g", "a">>
Catalog_num_plurals(catalog) ==
    IF catalog._num_plurals # 0 THEN catalog._num_plurals
    ELSE IF catalog.locale = S(Ga) THEN 5
    ELSE 2

\* len(message.string)
StringLen(string) == IF string.t = "p" THEN Len(string.items) ELSE Len(string.v)

\* checkers.num_plurals(catalog, message)
num_plurals(catalog, message) ==
    IF ~pluralizable(message.id) \/ Falsy(message.string) THEN ReturnsNone
    ELSE IF CatalogLen(catalog) = 0 \/ Catalog_num_plurals(catalog) = 0
    THEN ReturnsNone
    ELSE IF StringLen(message.string) # Catalog_num_plurals(catalog)
    THEN "TranslationError"
    ELSE ReturnsNone

\* `msgid[0]` / `msgstr[0]` of a sequence, the value itself otherwise
First(val) == IF IsSequence(val) THEN val.items[1] ELSE val.v

\* checkers.python_format(catalog, message)
python_format(catalog, message) ==
    IF ~Message_python_format(message.id) THEN ReturnsNone
    ELSE IF Falsy(message.string) THEN ReturnsNone
    ELSE IF ~Search(First(message.id)) THEN ReturnsNone
    ELSE IF ~Search(First(message.string)) THEN "TranslationError"
    ELSE ReturnsNone

_string_format_compatibilities ==
    { {"i", "d", "u"}, {"x", "X"}, {"f", "F", "g", "G"} }

_compare_format_chars(a, b) ==
    \/ \E compat_set \in _string_format_compatibilities :
           a \in compat_set /\ b \in compat_set
    \/ a = b

Min(a, b) == IF a <= b THEN a ELSE b

\* checkers._validate_format(format, alternative)
_validate_format(format, alternative) ==
    LET format_placeholders == FindIter(format, 1)
        alternative_placeholders == FindIter(alternative, 1)
    IN IF /\ \E i \in 1..Len(format_placeholders) :
                 format_placeholders[i].name # PyNone
          /\ \E i \in 1..Len(alternative_placeholders) :
                 alternative_placeholders[i].name = PyNone
       THEN "TranslationError"
       ELSE IF \E i \in 1..Min(Len(format_placeholders), Len(alternative_placeholders)) :
                   ~_compare_format_chars(format_placeholders[i].type,
                                          alternative_placeholders[i].type)
       THEN "TranslationError"
       ELSE ReturnsNone

\* checkers.checkers = _find_checkers(): every callable of the module's
\* globals whose name has no leading underscore, in the order of definition
checkers ==
    <<"Callable", "Catalog", "Message", "TranslationError", "num_plurals",
      "python_format">>

\* checker(catalog, message) for a registered checker
CallChecker(name, catalog, message) ==
    CASE name = "num_plurals" -> num_plurals(catalog, message)
      [] name = "python_format" -> python_format(catalog, message)
      [] name = "Callable" -> "TypeError"
      [] OTHER -> ReturnsValue

\* Message.check(catalog): the checkers run in order, a TranslationError is
\* collected, any other exception ends the call
RECURSIVE MessageCheckFrom(_, _, _, _)
MessageCheckNext(names, catalog, message, errors, out) ==
    IF out = "TranslationError"
    THEN MessageCheckFrom(Tail(names), catalog, message, Append(errors, Head(names)))
    ELSE IF out \in {ReturnsNone, ReturnsValue}
    THEN MessageCheckFrom(Tail(names), catalog, message, errors)
    ELSE [kind |-> out, errors |-> errors]
MessageCheckFrom(names, catalog, message, errors) ==
    IF names = <<>> THEN [kind |-> "ok", errors |-> errors]
    ELSE MessageCheckNext(names, catalog, message, errors,
                          CallChecker(Head(names), catalog, message))

MessageCheck(catalog, message) == MessageCheckFrom(checkers, catalog, message, <<>>)

\* Catalog.check(): (message, errors) for every stored message with errors
RECURSIVE CatalogCheckFrom(_, _, _, _)
CatalogCheckNext(ms, catalog, entries, yielded, r) ==
    IF r.kind # "ok" THEN [kind |-> r.kind, yielded |-> yielded]
    ELSE CatalogCheckFrom(ms, catalog, Tail(entries),
             IF r.errors = <<>> THEN yielded
             ELSE Append(yielded, [ref |-> Head(entries).ref, errors |-> r.errors]))
CatalogCheckFrom(ms, catalog, entries, yielded) ==
    IF entries = <<>> THEN [kind |-> "ok", yielded |-> yielded]
    ELSE CatalogCheckNext(ms, catalog, entries, yielded,
                          MessageCheck(catalog, ms[Head(entries).ref]))

CatalogCheck(ms, catalog) == CatalogCheckFrom(ms, catalog, catalog._messages, <<>>)

\* the format strings of the checked messages: up to MaxTokens pieces of
\* text and placeholders, and the documented examples
FormatTokens ==
    { <<"H">>, <<"%", "s">>, <<"%", "i">>, <<"%", "d">>, <<"%", "x">>,
      <<"%", "(", "n", ")", "s">> }

RECURSIVE FormatsUpTo(_)
FormatsUpTo(n) ==
    IF n = 0 THEN {<<>>}
    ELSE LET shorter == FormatsUpTo(n - 1)
         IN shorter \cup {str \o token : str \in shorter, token \in FormatTokens}

ExampleFormats ==
    { <<"H", "e", "l", "l", "o", " ", "%", "(", "n", "a", "m", "e", ")", "s", "!">>,
      <<"H", "a", "l", "l", "o", " ", "%", "s", "!">>,
      <<"H", "e", "l", "l", "o", " ", "%", "i", "!">>,
      <<"H", "a", "l", "l", "o", " ", "%", "d", "!">>,
      <<"%", "-", "5", ".", "2", "f", " ", "%", "%">>,
      <<"%", "g", " ", "%", "(", "n", ")", "0", "3", "l", "d">> }

Formats == FormatsUpTo(MaxTokens) \cup ExampleFormats

\* the translations of a pluralizable message: 1..MaxForms forms
Forms(n) == Tup([i \in 1..n |-> Bar])

\* the messages whose format strings the program has checked
FormatArgs ==
    { Args(S(id), S(string), <<>>, {}, <<>>, <<>>, PyNone) :
          id \in Formats \ {<<>>}, string \in Formats }

\* the messages the program has checked against a catalog
CheckArgs ==
    { Args(Tup(<<Foo, Foos>>), Forms(n), <<>>, {}, <<>>, <<>>, PyNone) :
          n \in 1..MaxForms }
    \cup { Args(S(Foo), S(Bar), <<>>, {}, <<>>, <<>>, PyNone),
           Args(Tup(<<Foo, Foos>>), PyNone, <<>>, {}, <<>>, <<>>, PyNone),
           Args(S(<<"%", "s">>), S(<<"%", "x">>), <<>>, {}, <<>>, <<>>, PyNone),
           Args(S(<<"%", "s">>), S(<<"H">>), <<>>, {}, <<>>, <<>>, PyNone),
           Args(Tup(<< <<"%", "d">>, <<"%", "d", "s">> >>), Forms(MaxForms),
                <<>>, {}, <<>>, <<>>, PyNone) }

\* the program adds the message to the catalog before it checks
addChecked ==
    /\ ck.pc = "in"
    /\ cats.catalog._messages = <<>>
    /\ AssignTo("catalog", "add", ck.args.id, ck.args)

\* the outcome of a call: of a checker on the message, or of check()
Checked(call, out) ==
    /\ ck.pc = "in"
    /\ ck' = [ck EXCEPT !.pc = "done", !.call = call, !.out = out]
    /\ UNCHANGED <<loadVars, nm, msgs, cats, op>>

CallNumPlurals ==
    Checked("num_plurals",
            [kind |-> num_plurals(cats.catalog, NewMessage(ck.args))])

CallPythonFormat ==
    Checked("python_format",
            [kind |-> python_format(cats.catalog, NewMessage(ck.args))])

CallValidateFormat ==
    /\ ck.args.id.t = "s" /\ ck.args.string.t = "s"
    /\ Checked("_validate_format",
               [kind |-> _validate_format(ck.args.id.v, ck.args.string.v)])

\* any registered checker, called the way Message.check calls it
CallRegistered ==
    \E i \in 1..Len(checkers) :
        Checked(checkers[i],
                [kind |-> CallChecker(checkers[i], cats.catalog, NewMessage(ck.args))])

CatalogCheckCall == Checked("check", CatalogCheck(msgs, cats.catalog))

-----------------------------------------------------------------------------
(* The MIME headers and the plural forms of a catalog                      *)

\* str.lower() on the ASCII letters of a header name
Upper26 == <<"A", "B", "C", "D", "E", "F", "G", "H", "I", "J", "K", "L", "M", "N", "O", "P", "Q", "R", "S", "T", "U", "V", "W", "X", "Y", "Z">>
Lower26 == <<"a", "b", "c", "d", "e", "f", "g", "h", "i", "j", "k", "l", "m", "n", "o", "p", "q", "r", "s", "t", "u", "v", "w", "x", "y", "z">>
AsciiLowerCh(c) ==
    IF \E i \in 1..26 : Upper26[i] = c
    THEN Lower26[CHOOSE i \in 1..26 : Upper26[i] = c] ELSE c
NameLower(str) == [i \in 1..Len(str) |-> AsciiLowerCh(str[i])]

\* str.find(c) and str.rfind(c), from 1; 0 when c does not occur
Find(str, c) ==
    IF \E i \in 1..Len(str) : str[i] = c
    THEN CHOOSE i \in 1..Len(str) : str[i] = c /\ \A j \in 1..(i - 1) : str[j] # c
    ELSE 0
RFind(str, c) ==
    IF \E i \in 1..Len(str) : str[i] = c
    THEN CHOOSE i \in 1..Len(str) : str[i] = c /\ \A j \in (i + 1)..Len(str) : str[j] # c
    ELSE 0

\* str.split(c, 1)
SplitAt(str, i) ==
    IF i = 0 THEN <<str>> ELSE <<SubSeq(str, 1, i - 1), SubSeq(str, i + 1, Len(str))>>
Split1(str, c) == SplitAt(str, Find(str, c))

\* int(text) of a decimal numeral with blanks around it
Digits10 == <<"0", "1", "2", "3", "4", "5", "6", "7", "8", "9">>
IsNumeral(str) == str # <<>> /\ \A i \in 1..Len(str) : str[i] \in DigitChars
DigitValue(c) == (CHOOSE i \in 1..10 : Digits10[i] = c) - 1
RECURSIVE NumeralValue(_)
NumeralValue(str) ==
    IF str = <<>> THEN 0
    ELSE 10 * NumeralValue(SubSeq(str, 1, Len(str) - 1)) + DigitValue(str[Len(str)])

\* the names of the headers _set_mime_headers knows
ProjectIdVersion == <<"p", "r", "o", "j", "e", "c", "t", "-", "i", "d", "-", "v", "e", "r", "s", "i", "o", "n">>
ReportMsgidBugsTo == <<"r", "e", "p", "o", "r", "t", "-", "m", "s", "g", "i", "d", "-", "b", "u", "g", "s", "-", "t", "o">>
LastTranslator == <<"l", "a", "s", "t", "-", "t", "r", "a", "n", "s", "l", "a", "t", "o", "r">>
Language == <<"l", "a", "n", "g", "u", "a", "g", "e">>
LanguageTeam == <<"l", "a", "n", "g", "u", "a", "g", "e", "-", "t", "e", "a", "m">>
ContentType == <<"c", "o", "n", "t", "e", "n", "t", "-", "t", "y", "p", "e">>
PluralForms == <<"p", "l", "u", "r", "a", "l", "-", "f", "o", "r", "m", "s">>

\* the outcome of assigning the headers: the catalog and how the call ended
Completed(catalog) == [catalog |-> catalog, kind |-> "ok"]
Raised(catalog, kind) == [catalog |-> catalog, kind |-> kind]

\* self.<attr> = value for the scalar metadata (an attribute that is not in
\* attrs has the value the constructor gave it)
AttrSet(attrs, attr, value) ==
    IF \E i \in 1..Len(attrs) : attrs[i].key = attr
    THEN [i \in 1..Len(attrs) |->
             IF attrs[i].key = attr THEN [key |-> attr, ref |-> value] ELSE attrs[i]]
    ELSE Append(attrs, [key |-> attr, ref |-> value])
SetAttr(catalog, attr, value) ==
    [catalog EXCEPT !.attrs = AttrSet(@, attr, value)]

\* Catalog._set_locale
_set_locale(catalog, value) ==
    [catalog EXCEPT !.locale = IF value = <<>> THEN PyNone ELSE S(value)]

\* parts = value.split(' '); project = ' '.join(parts[:-1]); version = parts[-1]
SetProject(catalog, value, space) ==
    SetAttr(SetAttr(catalog, "project", SubSeq(value, 1, space - 1)),
            "version", SubSeq(value, space + 1, Len(value)))

\* the plural-forms branch, statement by statement
SetPluralNum(catalog, num, expr) ==
    IF Len(num) < 2 THEN Raised(catalog, "IndexError")
    ELSE IF ~IsNumeral(StrStrip(num[2])) THEN Raised(catalog, "ValueError")
    ELSE Completed([catalog EXCEPT !._num_plurals = NumeralValue(StrStrip(num[2])),
                                   !._plural_expr = S(StrStrip(expr))])
SetPluralParams(catalog, params) ==
    IF Len(params) < 2 THEN Raised(catalog, "ValueError")
    ELSE SetPluralNum(catalog, Split1(StrStrip(params[1]), "="), params[2])
SetPluralForms(catalog, parts) ==
    IF Len(parts) < 2 THEN Raised(catalog, "ValueError")
    ELSE SetPluralParams(catalog, Split1(parts[2], "="))

\* one turn of the loop, name being lower-cased; the content-type branch
\* looks for 'charset' in the parameter value of the first parameter, which is
\* the empty value of the MIME type, and so assigns nothing
SetHeader(catalog, name, value) ==
    IF name = ProjectIdVersion THEN Completed(SetProject(catalog, value, RFind(value, " ")))
    ELSE IF name = ReportMsgidBugsTo THEN Completed(SetAttr(catalog, "msgid_bugs_address", value))
    ELSE IF name = LastTranslator THEN Completed(SetAttr(catalog, "last_translator", value))
    ELSE IF name = Language THEN Completed(_set_locale(catalog, value))
    ELSE IF name = LanguageTeam THEN Completed(SetAttr(catalog, "language_team", value))
    ELSE IF name = ContentType THEN Completed(catalog)
    ELSE IF name = PluralForms THEN SetPluralForms(catalog, Split1(value, ";"))
    ELSE Completed(catalog)

\* Catalog._set_mime_headers: an exception ends the loop, what the earlier
\* headers assigned stays
RECURSIVE _set_mime_headers(_, _)
SetRest(r, headers) ==
    IF r.kind # "ok" THEN r ELSE _set_mime_headers(r.catalog, Tail(headers))
_set_mime_headers(catalog, headers) ==
    IF headers = <<>> THEN Completed(catalog)
    ELSE SetRest(SetHeader(catalog, NameLower(Head(headers)[1]), Head(headers)[2]),
                 headers)

\* Catalog.plural_expr: the parsed Plural-Forms value, or the plural rule of
\* the catalog's locale ('(n != 1)' without a locale or for an unknown one)
DefaultExpr == <<"(", "n", " ", "!", "=", " ", "1", ")">>
GaExpr == <<"(", "n", "=", "=", "1", " ", "?", " ", "0", " ", ":", " ", "n", "=", "=", "2", " ", "?", " ", "1", " ", ":", " ", "n", ">", "=", "3", " ", "&", "&", " ", "n", "<", "=", "6", " ", "?", " ", "2", " ", ":", " ", "n", ">", "=", "7", " ", "&", "&", " ", "n", "<", "=", "1", "0", " ", "?", " ", "3", " ", ":", " ", "4", ")">>
Catalog_plural_expr(catalog) ==
    IF catalog._plural_expr # PyNone THEN catalog._plural_expr.v
    ELSE IF catalog.locale = S(Ga) THEN GaExpr
    ELSE DefaultExpr

\* the header lists the program assigns to mime_headers
Ding == <<"d", "i", "n", "g">>
ThreeForms == <<"n", "p", "l", "u", "r", "a", "l", "s", "=", "3", ";", " ", "p", "l", "u", "r", "a", "l", "=", "(", "n", " ", ">", " ", "2", ")", ";">>
TwoForms == <<"n", "p", "l", "u", "r", "a", "l", "s", "=", "2", ";", " ", "p", "l", "u", "r", "a", "l", "=", "(", "n", " ", "!", "=", " ", "1", ")", ";">>
OneForm == <<"n", "p", "l", "u", "r", "a", "l", "s", "=", "1", ";", " ", "p", "l", "u", "r", "a", "l", "=", "0", ";">>
NoParams == <<"n", "p", "l", "u", "r", "a", "l", "s", "=", "2">>
ThreeExpr == <<"(", "n", " ", ">", " ", "2", ")">>
HeaderLists ==
    { << <<<<"P", "l", "u", "r", "a", "l", "-", "F", "o", "r", "m", "s">>, ThreeForms>> >>,
      << <<<<"p", "l", "u", "r", "a", "l", "-", "f", "o", "r", "m", "s">>, TwoForms>> >>,
      << <<<<"P", "L", "U", "R", "A", "L", "-", "F", "O", "R", "M", "S">>, OneForm>> >>,
      << <<<<"P", "l", "u", "r", "a", "l", "-", "F", "o", "r", "m", "s">>, NoParams>> >>,
      << <<<<"P", "r", "o", "j", "e", "c", "t", "-", "I", "d", "-", "V", "e", "r", "s", "i", "o", "n">>, <<"F", "o", "o", " ", "B", "a", "r", " ", "1", ".", "0">>>>, <<<<"P", "l", "u", "r", "a", "l", "-", "F", "o", "r", "m", "s">>, ThreeForms>>, <<<<"L", "a", "s", "t", "-", "T", "r", "a", "n", "s", "l", "a", "t", "o", "r">>, <<"m", "e">>>> >>,
      << <<<<"L", "a", "n", "g", "u", "a", "g", "e">>, Ga>>, <<<<"L", "a", "n", "g", "u", "a", "g", "e", "-", "T", "e", "a", "m">>, Ga>> >>,
      << <<<<"L", "a", "n", "g", "u", "a", "g", "e">>, <<>> >> >>,
      << <<<<"C", "o", "n", "t", "e", "n", "t", "-", "T", "y", "p", "e">>, <<"t", "e", "x", "t", "/", "p", "l", "a", "i", "n", ";", " ", "c", "h", "a", "r", "s", "e", "t", "=", "l", "a", "t", "i", "n", "-", "1">>>>, <<<<"R", "e", "p", "o", "r", "t", "-", "M", "s", "g", "i", "d", "-", "B", "u", "g", "s", "-", "T", "o">>, <<"m", "e">>>>, <<<<"X", "-", "U", "n", "k", "n", "o", "w", "n">>, <<"1">>>> >>,
      << <<<<"L", "a", "n", "g", "u", "a", "g", "e">>, En>>, <<<<"P", "l", "u", "r", "a", "l", "-", "F", "o", "r", "m", "s">>, ThreeForms>> >>,
      << <<<<"L", "a", "n", "g", "u", "a", "g", "e">>, Ding>>, <<<<"P", "l", "u", "r", "a", "l", "-", "F", "o", "r", "m", "s">>, OneForm>> >> }

\* catalog.locale = value
SetLocale ==
    /\ op.made.catalog < MaxOps
    /\ \E value \in {<<>>, En, Ga, Ding} :
           /\ cats' = [cats EXCEPT !.catalog = _set_locale(@, value)]
           /\ op' = [kind |-> "locale", out |-> "ok", catalog |-> cats.catalog,
                     made |-> [op.made EXCEPT !.catalog = @ + 1]]
    /\ UNCHANGED <<loadVars, nm, msgs, ck>>

\* catalog.mime_headers = headers
SetMimeHeaders ==
    /\ op.made.catalog < MaxOps
    /\ \E headers \in HeaderLists :
           LET r == _set_mime_headers(cats.catalog, headers)
           IN /\ cats' = [cats EXCEPT !.catalog = r.catalog]
              /\ op' = [kind |-> "mime_headers", headers |-> headers, out |-> r.kind,
                        catalog |-> cats.catalog,
                        made |-> [op.made EXCEPT !.catalog = @ + 1]]
    /\ UNCHANGED <<loadVars, nm, msgs, ck>>

-----------------------------------------------------------------------------

NoResult == [kind |-> "none", name |-> "", mi |-> FALSE, obj |-> 0, cached |-> FALSE]
NoRead == [n |-> 0]
NoName == [pc |-> "off", name |-> <<>>, out |-> <<>>, out2 |-> <<>>]
NoOp == [kind |-> "none", made |-> [catalog |-> 0, template |-> 0]]
NoCheck == [pc |-> "off"]

\* a program that uses no catalog
InitNoCatalog ==
    /\ msgs = <<>>
    /\ cats = [catalog |-> Catalog, template |-> Catalog]
    /\ op = NoOp
    /\ ck = NoCheck

InitLoad ==
    /\ disk \in Disks
    /\ heap = <<>>
    /\ cache = [n \in Locales |-> 0]
    /\ lockOwner = NoThread
    /\ lockCount = 0
    /\ stack = [t \in Threads |-> <<>>]
    /\ result = [t \in Threads |-> NoResult]
    /\ calls = 0
    /\ returned = [n \in Locales |-> {}]
    /\ lastRead = NoRead

Init ==
    /\ InitLoad
    /\ nm = NoName
    /\ InitNoCatalog

Next ==
    \E t \in Threads :
        \/ Call(t)
        \/ LoadCheck(t)
        \/ LoadAcquire(t)
        \/ LoadOpenFail(t)
        \/ LoadOpen(t)
        \/ LoadInherit(t)
        \/ LoadMerge(t)
        \/ LoadStore(t)

Spec == Init /\ [][Next]_vars

\* a single-threaded program that loads locale data and reads it through views
MainThread == "t1"

NextSeq ==
    \/ Call(MainThread)
    \/ LoadCheck(MainThread)
    \/ LoadAcquire(MainThread)
    \/ LoadOpenFail(MainThread)
    \/ LoadOpen(MainThread)
    \/ LoadInherit(MainThread)
    \/ LoadMerge(MainThread)
    \/ LoadStore(MainThread)
    \/ GetItem(MainThread)

SpecSeq == Init /\ [][NextSeq]_vars

-----------------------------------------------------------------------------
(* exists(name), and load(name) for a name as the caller wrote it          *)

\* the identifiers of the data files as strings
LocaleChars ==
    [root |-> <<"r", "o", "o", "t">>, en |-> <<"e", "n">>,
     en_US |-> <<"e", "n", "_", "U", "S">>]

\* resolve_locale_filename(name) on a system that is not Windows: the path
\* <_dirname>/<name>.dat; it is given here as the identifier of the data file
\* of exactly that name, "" when the directory has no entry of that name
resolve_locale_filename(name) ==
    IF \E n \in Locales : LocaleChars[n] = name
    THEN CHOOSE n \in Locales : LocaleChars[n] = name
    ELSE ""

\* os.path.exists(filename)
PathExists(filename) == filename # "" /\ FileExists(filename)

\* exists(name)
existsNormalized(norm_name) ==
    IF norm_name = NoneStr THEN FALSE
    ELSE PathExists(resolve_locale_filename(norm_name))
exists(name) == existsNormalized(normalize_locale(name))

\* the names the program asks about
LocaleNames == Names \cup {LocaleChars[n] : n \in Locales}

Exists ==
    /\ nm.pc = "in"
    /\ nm' = [pc |-> "exists", name |-> nm.name, out |-> normalize_locale(nm.name),
              out2 |-> <<>>, found |-> exists(nm.name)]
    /\ UNCHANGED <<loadVars, catVars>>

\* load(name) with the name exists() was asked about: for a name without a
\* file open() raises inside `with _cache_lock:` and the lock is released
\* again; for the name of a file the call goes on as load steps of the thread
LoadName ==
    /\ nm.pc = "exists"
    /\ nm' = [nm EXCEPT !.pc = "loaded"]
    /\ calls' = calls + 1
    /\ IF PathExists(resolve_locale_filename(nm.name))
       THEN /\ stack' = [stack EXCEPT ![MainThread] =
                            <<Frame(resolve_locale_filename(nm.name), TRUE)>>]
            /\ UNCHANGED result
       ELSE /\ result' = [result EXCEPT ![MainThread] =
                   [kind |-> "IOError", name |-> "", mi |-> TRUE, obj |-> 0,
                    cached |-> FALSE]]
            /\ UNCHANGED stack
    /\ UNCHANGED <<disk, heap, cache, lockOwner, lockCount, returned, lastRead, catVars>>

\* load(name) called by the program with merge_inherited left at its default
CallMerging ==
    /\ ~Running(MainThread)
    /\ calls < MaxCalls
    /\ \E name \in Locales :
          stack' = [stack EXCEPT ![MainThread] = <<Frame(name, TRUE)>>]
    /\ calls' = calls + 1
    /\ UNCHANGED <<disk, heap, cache, lockOwner, lockCount, result, returned, lastRead, nm, catVars>>

\* a single-threaded program that loads merged locale data and reads it
\* through views between the loads
NextRd ==
    \/ CallMerging
    \/ LoadCheck(MainThread)
    \/ LoadAcquire(MainThread)
    \/ LoadOpenFail(MainThread)
    \/ LoadOpen(MainThread)
    \/ LoadInherit(MainThread)
    \/ LoadMerge(MainThread)
    \/ LoadStore(MainThread)
    \/ GetItem(MainThread)

SpecRd == Init /\ [][NextRd]_vars

\* normalize_locale applied to every name of the bounded set
InitNorm ==
    /\ InitLoad
    /\ disk = [root |-> "file", en |-> "file", en_US |-> "file"]
    /\ nm \in {[pc |-> "in", name |-> name, out |-> <<>>, out2 |-> <<>>] : name \in Names}
    /\ InitNoCatalog

NextNorm == NormalizeOnce \/ NormalizeAgain

SpecNorm == InitNorm /\ [][NextNorm]_vars

\* a program that fills a catalog
InitCat ==
    /\ InitLoad
    /\ disk = [root |-> "file", en |-> "file", en_US |-> "file"]
    /\ nm = NoName
    /\ InitNoCatalog

NextCat == add \/ SetItemCall

SpecCat == InitCat /\ [][NextCat]_vars

\* a program that updates a catalog from a template
NextUpd == addToTemplate \/ addToCatalog \/ updateCall

SpecUpd == InitCat /\ [][NextUpd]_vars

\* a program that checks one message of a catalog
InitChk ==
    /\ InitLoad
    /\ disk = [root |-> "file", en |-> "file", en_US |-> "file"]
    /\ nm = NoName
    /\ msgs = <<>>
    /\ \E locale \in {PyNone, S(En), S(Ga)} :
           cats = [catalog |-> CatalogFor(locale), template |-> Catalog]
    /\ op = NoOp
    /\ \E a \in CheckArgs : ck = [pc |-> "in", args |-> a, call |-> "", out |-> [kind |-> ""]]

NextChk ==
    \/ addChecked
    \/ CallNumPlurals
    \/ CallRegistered
    \/ CatalogCheckCall

SpecChk == InitChk /\ [][NextChk]_vars

\* a program that checks the format string of one translation
InitFmt ==
    /\ InitLoad
    /\ disk = [root |-> "file", en |-> "file", en_US |-> "file"]
    /\ nm = NoName
    /\ msgs = <<>>
    /\ cats = [catalog |-> Catalog, template |-> Catalog]
    /\ op = NoOp
    /\ \E a \in FormatArgs : ck = [pc |-> "in", args |-> a, call |-> "", out |-> [kind |-> ""]]

NextFmt == CallPythonFormat \/ CallValidateFormat

SpecFmt == InitFmt /\ [][NextFmt]_vars

\* a program that sets the locale and the MIME headers of a catalog
NextHdr == SetLocale \/ SetMimeHeaders

SpecHdr == InitCat /\ [][NextHdr]_vars

\* a program that asks whether a name exists and then loads it
InitEx ==
    /\ InitLoad
    /\ nm \in {[pc |-> "in", name |-> name, out |-> <<>>, out2 |-> <<>>] :
                  name \in LocaleNames}
    /\ InitNoCatalog

NextEx ==
    \/ Exists
    \/ LoadName
    \/ LoadCheck(MainThread)
    \/ LoadAcquire(MainThread)
    \/ LoadOpenFail(MainThread)
    \/ LoadOpen(MainThread)
    \/ LoadInherit(MainThread)
    \/ LoadMerge(MainThread)
    \/ LoadStore(MainThread)

SpecEx == InitEx /\ [][NextEx]_vars

-----------------------------------------------------------------------------
(* What the data files say: the ancestor chain of a locale and the value   *)
(* its own data wins with.  These read the files, not the loaded mappings. *)

Absent == [t |-> "absent"]

\* the parent of a locale: its 'parent' entry, root when it has none; root has no parent
FileParent(name) ==
    IF name = "root" \/ ~FileExists(name) THEN ""
    ELSE IF "parent" \in DOMAIN FileOf(name)[1]
         THEN (IF Truthy(FileOf(name)[1]["parent"]) THEN FileOf(name)[1]["parent"].v ELSE "")
         ELSE "root"

RECURSIVE Chain(_)
Chain(name) == IF FileParent(name) = "" THEN <<name>> ELSE <<name>> \o Chain(FileParent(name))

ChainEndsInRoot(name) ==
    LET chain == Chain(name)
    IN chain[Len(chain)] = "root" /\ \A i \in 1..Len(chain) : FileExists(chain[i])

RECURSIVE FileLookup(_, _, _)
FileLookup(file, idx, path) ==
    IF Head(path) \notin DOMAIN file[idx] THEN Absent
    ELSE LET v == file[idx][Head(path)]
         IN IF Len(path) = 1 THEN v
            ELSE IF v.t = "d" THEN FileLookup(file, v.r, Tail(path)) ELSE Absent

\* the value of the most specific locale of the chain that has the path
RECURSIVE MostSpecific(_, _)
MostSpecific(chain, path) ==
    IF chain = <<>> THEN Absent
    ELSE LET own == FileLookup(FileOf(Head(chain)), 1, path)
         IN IF own # Absent THEN own ELSE MostSpecific(Tail(chain), path)

\* the value a path leads to in a loaded mapping (through dicts and views)
RECURSIVE Lookup(_, _, _)
Lookup(h, obj, path) ==
    IF Head(path) \notin DOMAIN h[obj] THEN Absent
    ELSE LET v == h[obj][Head(path)]
         IN IF Len(path) = 1 THEN v
            ELSE IF v.t \in {"d", "w"} THEN Lookup(h, v.r, Tail(path)) ELSE Absent

LeafPaths == {<<"k">>, <<"r">>, <<"m", "x">>, <<"m", "y">>, <<"m", "s", "p">>}

Frames == {<<t, i>> : t \in Threads, i \in 1..RecursionLimit}
IsFrame(ti) == ti[2] <= Len(stack[ti[1]])
FrameAt(ti) == stack[ti[1]][ti[2]]

-----------------------------------------------------------------------------
(* The claims                                                              *)

\* C1: the mapping a merging load(L) is about to return holds, for every
\* scalar key of the chain L -> ... -> root, the value of the most specific
\* locale that has the key (own data wins; mapping values combine key-wise).
C1_OwnDataWins ==
    \A ti \in Frames :
        (IsFrame(ti) /\ FrameAt(ti).pc = "store" /\ FrameAt(ti).mi
           /\ ChainEndsInRoot(FrameAt(ti).name))
        => \A path \in LeafPaths :
              Lookup(heap, FrameAt(ti).data, path) = MostSpecific(Chain(FrameAt(ti).name), path)

\* C2: every successful load of one identifier returns the very same object.
C2_SameObject ==
    \A name \in Locales : Cardinality(returned[name]) <= 1

\* C3: a mapping whose load is still in progress (unpickled, its ancestors
\* not yet merged in) is not in the cache, and at most one thread is inside
\* the read-deserialize-merge-cache sequence.
C3_NoPartialLoad ==
    /\ \A ti \in Frames :
          (IsFrame(ti) /\ FrameAt(ti).pc \in {"inherit", "wait", "merge"})
          => \A name \in Locales : cache[name] # FrameAt(ti).data
    /\ \A t1, t2 \in Threads : (Held(t1) > 0 /\ Held(t2) > 0) => t1 = t2

\* C3 witness: one thread is merging under the lock, with an ancestor already
\* cached, while another thread waits for the lock.
C3_Witness ==
    \E t1, t2 \in Threads :
        /\ t1 # t2
        /\ AtPc(t1, "merge")
        /\ cache[stack[t1][Len(stack[t1])].name] = 0
        /\ cache["root"] # 0
        /\ AtPc(t2, "acquire")

\* C4: a load returns merged data exactly when merge_inherited was asked for:
\* the result of load(L, true) holds the key only root has, the result of
\* load(L, false) does not, whatever was loaded before.
C4_FlagKeyedCache ==
    \A t \in Threads :
        (result[t].kind = "ok" /\ result[t].name # "root")
        => (result[t].mi <=> "r" \in DOMAIN heap[result[t].obj])

\* The load of name reads a file that is not on disk: its own, or with
\* merge_inherited that of an ancestor.
NeedsMissingFile(name, mi) ==
    \/ ~FileExists(name)
    \/ mi /\ \E i \in 1..Len(Chain(name)) : ~FileExists(Chain(name)[i])

\* C5: a load whose own file, or the file of an ancestor it needs, is missing
\* ends in an IOError, leaves no cache entry for the identifier and leaves
\* the lock released.
C5_MissingFileFails ==
    \A t \in Threads :
        (result[t].kind # "none" /\ NeedsMissingFile(result[t].name, result[t].mi))
        => /\ result[t].kind = "IOError"
           /\ ~result[t].cached
           /\ (~Running(t) => lockOwner # t)

\* C6: load("root") never triggers a further parent load, no load ends in a
\* RecursionError, and a thread that re-enters the lock it holds is let in.
C6_RootHasNoParent ==
    /\ \A ti \in Frames :
          (IsFrame(ti) /\ FrameAt(ti).name = "root") => ti[2] = Len(stack[ti[1]])
    /\ \A t \in Threads : result[t].kind # "RecursionError"
    /\ \A t \in Threads : (AtPc(t, "acquire") /\ Held(t) > 0) => CanAcquire(t)

\* C7: normalize returns None for a name that is empty after trimming, and
\* otherwise the trimmed name with '-' turned into '_', the language subtag
\* lower-cased, a 4-letter script subtag title-cased and the region/variant
\* subtags upper-cased (so "zh-hans-cn" gives "zh_Hans_CN").
C7_NormalizeCasing ==
    nm.pc \in {"once", "twice"} =>
        LET cleaned == StrReplace(StrStrip(nm.name))
        IN IF cleaned = <<>> THEN nm.out = NoneStr
           ELSE LET parts == StrSplit(cleaned)
                    got == StrSplit(nm.out)
                IN /\ Len(got) = Len(parts)
                   /\ got[1] = StrLower(parts[1])
                   /\ Len(parts) > 1 => got[2] = ScriptCase(parts[2])
                   /\ (\A i \in 1..Len(parts) : parts[i] # <<>>)
                      => \A i \in 3..Len(parts) :
                            Len(parts[i]) # 4 => got[i] = StrUpper(parts[i])

\* C8: normalize is idempotent on every name it does not reject.
C8_NormalizeIdempotent ==
    nm.pc = "twice" => nm.out2 = nm.out

\* the value an alias chain ends at in a loaded tree: the keys are looked up
\* from the top of the tree, and an alias found there is followed in turn
RECURSIVE ChainEnd(_, _, _)
ChainEnd(h, base, keys) ==
    LET v == Lookup(h, base, keys)
    IN IF v.t = "a" THEN ChainEnd(h, base, v.keys) ELSE v

\* C9: a read of a key that holds an alias returns the view of the mapping
\* the alias chain ends at in the top-level tree, which is no alias, and
\* leaves it in the raw slot; a read of a slot that was read just before
\* returns the same value and resolves nothing.
C9_AliasMemoized ==
    lastRead.n > 0 =>
        /\ lastRead.orig.t = "a" =>
              /\ lastRead.val.t = "w"
              /\ lastRead.val.base = lastRead.base
              /\ ChainEnd(heap, lastRead.base, lastRead.orig.keys).t \in {"d", "w"}
              /\ ChainEnd(heap, lastRead.base, lastRead.orig.keys).r = lastRead.val.r
              /\ heap[lastRead.obj][lastRead.key] = lastRead.val
        /\ lastRead.again =>
              /\ lastRead.val = lastRead.orig
              /\ lastRead.resolves = 0

\* C9 witness: the key al2, an alias of an alias, was read twice in a row.
C9_Witness ==
    /\ lastRead.n >= 2
    /\ lastRead.again
    /\ lastRead.key = "al2"
    /\ lastRead.val.t = "w"

\* every key of the overrides has the overrides' value in the result, mapping
\* values compared key-wise
RECURSIVE HasOverrides(_, _, _)
HasOverrides(h, res, others) ==
    \A key \in DOMAIN h[others] :
        /\ key \in DOMAIN h[res]
        /\ IF h[others][key].t = "d"
           THEN /\ h[res][key].t \in {"d", "w"}
                /\ HasOverrides(h, h[res][key].r, h[others][key].r)
           ELSE h[res][key] = h[others][key]

\* every key only the target has keeps the target's value in the result
RECURSIVE KeepsTarget(_, _, _, _)
KeepsTarget(h, res, target, others) ==
    \A key \in DOMAIN h[target] :
        IF key \notin DOMAIN h[others]
        THEN key \in DOMAIN h[res] /\ h[res][key] = h[target][key]
        ELSE (h[target][key].t \in {"d", "w"} /\ h[others][key].t = "d")
             => /\ key \in DOMAIN h[res]
                /\ h[res][key].t \in {"d", "w"}
                /\ KeepsTarget(h, h[res][key].r, h[target][key].r, h[others][key].r)

\* C10: a read of a key that holds (alias, overrides) returns a mapping that
\* is the alias target with the overrides deep-merged on top.
C10_OverridesDeepMerged ==
    (lastRead.n > 0 /\ lastRead.orig.t = "t") =>
        LET target == ChainEnd(heap, lastRead.base, lastRead.orig.keys)
        IN /\ lastRead.val.t = "w"
           /\ lastRead.val.r # target.r
           /\ HasOverrides(heap, lastRead.val.r, lastRead.orig.r)
           /\ KeepsTarget(heap, lastRead.val.r, target.r, lastRead.orig.r)

-----------------------------------------------------------------------------
(* The claims about catalogs                                               *)

\* the last operation assigned a message; the key it assigned under and the
\* object that key held when the call started (0: none)
Assigned == op.kind \in {"add", "setitem"}
OpMessage == op.msgs[op.ref]
OpKey == _key_for(op.id, OpMessage.context)
OpCurrent == DictGet(op.catalog._messages, OpKey)

FirstIndex(items, x) ==
    CHOOSE i \in 1..Len(items) : items[i] = x /\ \A j \in 1..(i - 1) : items[j] # x

\* res holds every item of src once, in the order of their first occurrence
IsDedupOf(res, src) ==
    /\ \A i, j \in 1..Len(res) : i # j => res[i] # res[j]
    /\ {res[i] : i \in 1..Len(res)} = {src[i] : i \in 1..Len(src)}
    /\ \A i, j \in 1..Len(res) :
           i < j => FirstIndex(src, res[i]) < FirstIndex(src, res[j])

\* C11: an assignment under a key that is already stored keeps the stored
\* Message object, the stored keys and their order, and leaves the object with
\* the old locations followed by the new ones, each location once, at the
\* place of its first occurrence.
C11_DuplicateKeyMerges ==
    (Assigned /\ OpCurrent # 0)
    => /\ op.out = "ok"
       /\ cats.catalog._messages = op.catalog._messages
       /\ IsDedupOf(msgs[OpCurrent].locations,
                    op.msgs[OpCurrent].locations \o OpMessage.locations)

\* C11 witness: 'foo' stored at ('main.py', 1) was assigned again with the
\* locations ('utils.py', 5), ('main.py', 1), ('utils.py', 5).
C11_Witness ==
    /\ Assigned /\ OpCurrent # 0
    /\ op.msgs[OpCurrent].locations = <<MainPy1>>
    /\ OpMessage.locations = <<UtilsPy5, MainPy1>>
    /\ msgs[OpCurrent].locations = <<MainPy1, UtilsPy5>>

\* C12: an assignment under the empty id leaves the stored entries, their
\* order and every stored Message as they were, and sets the MIME headers,
\* the header comment and the fuzzy bit from the message.
C12_EmptyIdSetsHeader ==
    (Assigned /\ op.id = S(<<>>))
    => /\ cats.catalog._messages = op.catalog._messages
       /\ \A i \in 1..Len(op.catalog._messages) :
              msgs[op.catalog._messages[i].ref] = op.msgs[op.catalog._messages[i].ref]
       /\ cats.catalog.mime = OpMessage.string
       /\ cats.catalog._header_comment = HeaderComment(OpMessage.user_comments)
       /\ cats.catalog.fuzzy = ("fuzzy" \in OpMessage.flags)

\* C13: every stored message whose id is a pair has a sequence as its string,
\* and an assignment of a non-sequence string under a pair id ends in an
\* assertion failure.
C13_PluralHasPluralString ==
    /\ \A i \in 1..Len(cats.catalog._messages) :
           LET m == msgs[cats.catalog._messages[i].ref]
           IN IsSequence(m.id) => IsSequence(m.string)
    /\ (Assigned /\ IsSequence(op.id) /\ ~IsSequence(OpMessage.string))
       => op.out = "AssertionError"

\* the receiver's messages when update() was called, the template's messages,
\* and the message a key holds after the call
OldEntries == op.catalog._messages
TemplateEntries == cats.template._messages
OldMessage(key) == op.msgs[DictGet(OldEntries, key)]
LiveMessage(key) == msgs[DictGet(cats.catalog._messages, key)]
InOld(key) == DictGet(OldEntries, key) # 0
InTemplate(key) == DictGet(TemplateEntries, key) # 0

\* oldkey is the old key closest to the template key, and close enough
IsClosest(key, oldkey) ==
    LET word == _to_fuzzy_match_key(key)
        ratioOf(k) == <<Matches(word, _to_fuzzy_match_key(k)),
                        Len(word) + Len(_to_fuzzy_match_key(k))>>
    IN /\ InOld(oldkey)
       /\ 10 * 2 * ratioOf(oldkey)[1] >= CutoffTenths * ratioOf(oldkey)[2]
       /\ \A i \in 1..Len(OldEntries) :
              ratioOf(oldkey)[1] * ratioOf(OldEntries[i].key)[2]
                  >= ratioOf(OldEntries[i].key)[1] * ratioOf(oldkey)[2]

\* the template key had no exact match and was matched with oldkey fuzzily
FuzzyMatched(key, oldkey) ==
    /\ ~op.no_fuzzy_matching
    /\ InTemplate(key) /\ ~InOld(key)
    /\ IsClosest(key, oldkey)

\* an old key that an update matched with some template key
WasMatched(oldkey) ==
    \/ InTemplate(oldkey)
    \/ \E i \in 1..Len(TemplateEntries) : FuzzyMatched(TemplateEntries[i].key, oldkey)

\* C14: after update(template) the catalog's keys are the template's keys, in
\* the template's order.
C14_LiveKeysAreTemplateKeys ==
    Updated => DictKeys(cats.catalog._messages) = DictKeys(TemplateEntries)

\* C14 witness: the documented scenario, template green, blue, salad and
\* catalog blue, head, salad, was updated and the catalog holds three messages.
C14_Witness ==
    /\ Updated
    /\ DictKeys(TemplateEntries) = <<S(Green), S(Blue), S(Salad)>>
    /\ DictKeys(OldEntries) = <<S(Blue), S(HeadId), S(Salad)>>
    /\ CatalogLen(cats.catalog) = 3

\* C15: after update(template) every old message that no template key was
\* matched with is in obsolete under its key, the same object with the same
\* data; no matched old message is in obsolete; no obsolete key is live.
C15_UnmatchedGoObsolete ==
    Updated
    => /\ \A i \in 1..Len(OldEntries) :
              LET e == OldEntries[i]
              IN IF WasMatched(e.key)
                 THEN DictGet(cats.catalog.obsolete, e.key) = 0
                 ELSE /\ DictGet(cats.catalog.obsolete, e.key) = e.ref
                      /\ msgs[e.ref] = op.msgs[e.ref]
       /\ \A i \in 1..Len(cats.catalog.obsolete) :
              DictGet(cats.catalog._messages, cats.catalog.obsolete[i].key) = 0

\* C15 witness: in the documented scenario 'head' is the one obsolete message
\* and is not in the catalog.
C15_Witness ==
    /\ Updated
    /\ DictKeys(TemplateEntries) = <<S(Green), S(Blue), S(Salad)>>
    /\ DictKeys(OldEntries) = <<S(Blue), S(HeadId), S(Salad)>>
    /\ DictKeys(cats.catalog.obsolete) = <<S(HeadId)>>
    /\ msgs[cats.catalog.obsolete[1].ref].string = S(Kopf)
    /\ ~CatalogContains(cats.catalog, S(HeadId))

\* an empty or unset translation
Untranslated(string) ==
    \/ Falsy(string)
    \/ string.t = "p" /\ \A i \in 1..Len(string.items) : string.items[i] = <<>>

\* C16: a template message whose key is a key of the old catalog is stored
\* with the template's id, locations and auto-comments and the old entry's
\* string and user comments; a template message that was matched with no old
\* message is stored without a translation.
C16_ExactMatchKeepsTranslation ==
    Updated
    => \A i \in 1..Len(TemplateEntries) :
           LET key == TemplateEntries[i].key
               tmessage == op.msgs[TemplateEntries[i].ref]
               m == LiveMessage(key)
           IN /\ InOld(key)
                 => /\ m.id = tmessage.id
                    /\ m.locations = tmessage.locations
                    /\ m.auto_comments = tmessage.auto_comments
                    /\ m.string = OldMessage(key).string
                    /\ m.user_comments = OldMessage(key).user_comments
              /\ (~InOld(key) /\ \A j \in 1..Len(OldEntries) :
                                     ~FuzzyMatched(key, OldEntries[j].key))
                 => Untranslated(m.string)

\* C16 witness: in the documented scenario blue is 'blau' at ('main.py', 100),
\* salad is ('Salat', 'Salate') and green has no translation.
C16_Witness ==
    /\ Updated
    /\ DictKeys(TemplateEntries) = <<S(Green), S(Blue), S(Salad)>>
    /\ DictKeys(OldEntries) = <<S(Blue), S(HeadId), S(Salad)>>
    /\ LiveMessage(S(Blue)).string = S(Blau)
    /\ LiveMessage(S(Blue)).locations = << <<"main.py", 100>> >>
    /\ LiveMessage(S(Blue)).user_comments = <<"note">>
    /\ LiveMessage(S(Salad)).string = Tup(<<Salat, Salate>>)
    /\ LiveMessage(S(Green)).string = PyNone

\* C17: with fuzzy matching, a template message without an exact match whose
\* key has a closest old key above the threshold is stored with that old
\* message's translation and the flag 'fuzzy'; with no_fuzzy_matching no
\* message gets the flag from the update, and the old messages whose key is
\* not a template key are in obsolete.
C17_FuzzyMatchCarriesTranslation ==
    Updated
    => /\ \A i \in 1..Len(TemplateEntries), j \in 1..Len(OldEntries) :
              LET key == TemplateEntries[i].key
                  oldkey == OldEntries[j].key
              IN FuzzyMatched(key, oldkey)
                 => /\ LiveMessage(key).string = OldMessage(oldkey).string
                    /\ "fuzzy" \in LiveMessage(key).flags
       /\ op.no_fuzzy_matching
          => /\ \A i \in 1..Len(TemplateEntries) :
                    "fuzzy" \in LiveMessage(TemplateEntries[i].key).flags
                    => "fuzzy" \in op.msgs[TemplateEntries[i].ref].flags
             /\ \A j \in 1..Len(OldEntries) :
                    ~InTemplate(OldEntries[j].key)
                    => DictGet(cats.catalog.obsolete, OldEntries[j].key)
                           = OldEntries[j].ref

\* C17 witness: the template's 'heads' had no exact match, the old catalog
\* held 'head' -> 'Kopf', and the update stored 'heads' with 'Kopf' and 'fuzzy'.
C17_Witness ==
    /\ Updated /\ ~op.no_fuzzy_matching
    /\ InTemplate(S(Heads)) /\ ~InOld(S(Heads)) /\ InOld(S(HeadId))
    /\ LiveMessage(S(Heads)).string = S(Kopf)
    /\ "fuzzy" \in LiveMessage(S(Heads)).flags

-----------------------------------------------------------------------------
(* The claims about the checkers                                           *)

\* the call that was made, and the message it was made on
Called(call) == ck.pc = "done" /\ ck.call = call
CheckedMessage == NewMessage(ck.args)

\* the registered checkers that fail on a message, in their order
Failures(message) ==
    SelectSeq(checkers,
              LAMBDA name : CallChecker(name, cats.catalog, message) = "TranslationError")

\* what check() is to yield: the stored messages that have failures, in the
\* order they are stored, each with all its failures
ExpectedYield ==
    LET failing == SelectSeq(cats.catalog._messages,
                             LAMBDA e : Failures(msgs[e.ref]) # <<>>)
    IN [i \in 1..Len(failing) |->
           [ref |-> failing[i].ref, errors |-> Failures(msgs[failing[i].ref])]]

\* C18: check() ends normally and yields exactly the stored messages with at
\* least one failing checker, each with all its failures; a registered
\* checker returns None or raises TranslationError, nothing else.
C18_CheckCollectsAll ==
    /\ Called("check")
       => /\ ck.out.kind = "ok"
          /\ ck.out.yielded = ExpectedYield
    /\ \A i \in 1..Len(checkers) :
           Called(checkers[i]) => ck.out.kind \in {ReturnsNone, "TranslationError"}

\* the claim's compatibility of a translation with a source string
CompatibilityClasses == { {"d", "i", "u"}, {"x", "X"}, {"f", "F", "g", "G"} }
SameClass(a, b) == a = b \/ \E class \in CompatibilityClasses : a \in class /\ b \in class
Incompatible(format, alternative) ==
    LET source == FindIter(format, 1)
        translation == FindIter(alternative, 1)
    IN \/ /\ \E i \in 1..Len(source) : source[i].name # PyNone
          /\ \E i \in 1..Len(translation) : translation[i].name = PyNone
       \/ \E i \in 1..Len(source) :
              i <= Len(translation) /\ ~SameClass(source[i].type, translation[i].type)

\* C19: for a translated message whose id has placeholders, the python_format
\* checker fails exactly when the translation's placeholders are incompatible
\* with the id's: an unnamed placeholder against a named source, or types of
\* different compatibility classes.
C19_PythonFormatCompatibility ==
    (Called("python_format") /\ Search(ck.args.id.v) /\ ~Falsy(ck.args.string))
    => (ck.out.kind = "TranslationError"
           <=> Incompatible(ck.args.id.v, ck.args.string.v))

\* C20: for a pluralizable message with a non-empty sequence of translated
\* forms, the num_plurals checker fails exactly when the number of forms is
\* not the catalog's num_plurals, however many messages the catalog holds.
C20_NumPluralsCounts ==
    (/\ Called("num_plurals")
     /\ pluralizable(CheckedMessage.id)
     /\ IsSequence(CheckedMessage.string) /\ ~Falsy(CheckedMessage.string))
    => (ck.out.kind = "TranslationError"
           <=> Len(CheckedMessage.string.items) # Catalog_num_plurals(cats.catalog))

-----------------------------------------------------------------------------
(* The claim about the plural forms of a catalog                           *)

\* what the Plural-Forms values of the program say: "nplurals=N; plural=E;"
PluralFormsValues ==
    { [value |-> ThreeForms, num |-> 3, expr |-> ThreeExpr],
      [value |-> TwoForms, num |-> 2, expr |-> DefaultExpr],
      [value |-> OneForm, num |-> 1, expr |-> <<"0">>] }

\* headers[i] is the last Plural-Forms header of the list and has value
IsPluralFormsHeader(header) == NameLower(header[1]) = PluralForms
SetsPluralForms(headers, i, value) ==
    /\ IsPluralFormsHeader(headers[i]) /\ headers[i][2] = value
    /\ \A j \in (i + 1)..Len(headers) : ~IsPluralFormsHeader(headers[j])

\* the plural rule of a locale: five forms for ga, two for en, and the
\* default for an unknown locale and for no locale
LocaleNumPlurals(locale) == IF locale = S(Ga) THEN 5 ELSE 2
LocalePluralExpr(locale) == IF locale = S(Ga) THEN GaExpr ELSE DefaultExpr

\* C21: after a Plural-Forms header "nplurals=N; plural=E;" was set through
\* mime_headers, num_plurals is N and plural_expr is E whatever the locale;
\* a catalog without an override has the values of its locale's plural rule,
\* 2 and "(n != 1)" for an unbound or unknown locale.
C21_PluralFormsOverride ==
    /\ op.kind = "mime_headers"
       => \A i \in 1..Len(op.headers), pf \in PluralFormsValues :
              SetsPluralForms(op.headers, i, pf.value)
              => /\ Catalog_num_plurals(cats.catalog) = pf.num
                 /\ Catalog_plural_expr(cats.catalog) = pf.expr
    /\ (cats.catalog._num_plurals = 0 /\ cats.catalog._plural_expr = PyNone)
       => /\ Catalog_num_plurals(cats.catalog) = LocaleNumPlurals(cats.catalog.locale)
          /\ Catalog_plural_expr(cats.catalog) = LocalePluralExpr(cats.catalog.locale)

-----------------------------------------------------------------------------
(* The claims about sharing between loaded mappings                        *)

\* the dict objects a dict leads to through its dict-valued slots (a slot
\* that was memoized holds a view of the dict it held)
RECURSIVE ReachFrom(_, _, _)
ReachFrom(h, todo, seen) ==
    IF todo = {} THEN seen
    ELSE LET obj == CHOOSE o \in todo : TRUE
         IN ReachFrom(h,
                (todo \cup {h[obj][k].r : k \in {j \in DOMAIN h[obj] :
                                                   h[obj][j].t \in {"d", "w"}}})
                    \ (seen \cup {obj}),
                seen \cup {obj})
Reach(h, obj) == ReachFrom(h, {obj}, {})

\* the cached ancestors of the locale whose cached mapping is obj
CachedAncestors(obj) ==
    { p \in Locales : /\ cache[p] # 0
                      /\ \E c \in Locales :
                             /\ cache[c] = obj /\ p # c
                             /\ \E i \in 1..Len(Chain(c)) : Chain(c)[i] = p }

\* C22: after merge(dict1, dict2) no nested mapping object is shared between
\* dict1 and dict2, and a memoizing write through a view of dict1 does not
\* write into a mapping that is reachable from dict2.
C22_MergeCopiesNested ==
    /\ \A ti \in Frames :
           (IsFrame(ti) /\ FrameAt(ti).pc = "store" /\ FrameAt(ti).pdata # 0)
           => Reach(heap, FrameAt(ti).data) \cap Reach(heap, FrameAt(ti).pdata) = {}
    /\ (lastRead.n > 0 /\ lastRead.val # lastRead.orig)
       => \A p \in CachedAncestors(lastRead.base) :
              lastRead.obj \notin Reach(heap, cache[p])

\* the second part of C22 alone: a write through a view of a child that
\* lands in a mapping of a cached ancestor
WritesIntoAncestor ==
    /\ lastRead.n > 0 /\ lastRead.val # lastRead.orig
    /\ \E p \in CachedAncestors(lastRead.base) : lastRead.obj \in Reach(heap, cache[p])

-----------------------------------------------------------------------------
(* The claim about exists() and load()                                     *)

\* the data file exists() found for the name, and whether the directory has
\* the files of all its ancestors
FoundFile == resolve_locale_filename(nm.out)
AncestorsExist(name) == \A i \in 1..Len(Chain(name)) : FileExists(Chain(name)[i])

\* C23: when exists(name) is true, load(name) does not fail for want of the
\* data file of that name.
C23_ExistsImpliesLoad ==
    (/\ nm.pc = "loaded" /\ nm.found
     /\ ~Running(MainThread)
     /\ AncestorsExist(FoundFile))
    => result[MainThread].kind # "IOError"

\* exists(name) is true and load(name) returned the mapping
LoadedWhatExists ==
    /\ nm.pc = "loaded" /\ nm.found /\ ~Running(MainThread)
    /\ result[MainThread].kind = "ok"

-----------------------------------------------------------------------------
(* The claim about loads after reads                                       *)

\* the content of a mapping: every slot with its value, a nested mapping
\* with its content whether the slot holds the dict or a view of it
RECURSIVE Content(_, _)
ContentOf(h, v) ==
    CASE v.t \in {"d", "w"} -> [t |-> "mapping", items |-> Content(h, v.r)]
      [] v.t = "t" -> [t |-> "t", keys |-> v.keys, items |-> Content(h, v.r)]
      [] OTHER -> v
Content(h, obj) == [k \in DOMAIN h[obj] |-> ContentOf(h, h[obj][k])]

\* load(name) in a process that never reads: the files of the locale and of
\* its ancestors, merged
RECURSIVE LoadUnread(_, _)
MergeUnread(h, data, r) == [h |-> merge(r.h, data, r.obj), obj |-> data]
LoadUnread(h, name) ==
    IF FileParent(name) = ""
    THEN [h |-> Unpickle(h, FileOf(name)), obj |-> Len(h) + 1]
    ELSE MergeUnread(h, Len(h) + 1,
                     LoadUnread(Unpickle(h, FileOf(name)), FileParent(name)))
UnreadContent(loaded) == Content(loaded.h, loaded.obj)

\* C24: the mapping a first load(L) is about to store has the content it has
\* in a process that never read the cached data of L's ancestors.
C24_LoadIgnoresReads ==
    \A ti \in Frames :
        (IsFrame(ti) /\ FrameAt(ti).pc = "store")
        => Content(heap, FrameAt(ti).data) = UnreadContent(LoadUnread(<<>>, FrameAt(ti).name))

\* a load that is about to store a mapping, before any read
StoresUnread ==
    /\ lastRead.n = 0
    /\ \E ti \in Frames :
           IsFrame(ti) /\ FrameAt(ti).pc = "store" /\ FrameAt(ti).pdata # 0

====
